---- MODULE Spec2Model ----
(***************************************************************************)
(* The CVE matching engine of cisco-microtool-generator                    *)
(* (services/cve_engine.py, services/cve_sources.py, models/cve_model.py). *)
(*                                                                         *)
(* Python strings are sequences of one-character strings, so that strip(), *)
(* lower(), split(), substring tests and the code-point order of str       *)
(* comparison are computed as the interpreter computes them.  None is a    *)
(* value distinct from every string.                                       *)
(***************************************************************************)
EXTENDS Integers, Sequences, FiniteSets, TLC

VARIABLES
    cves,       \* CVEEngine.cves
    outcomes,   \* what each provider's load() did in the most recent load_all
    loaded,     \* loaded_by_provider of the most recent load_all
    before,     \* history: CVEEngine.cves as a reload found it
    query,      \* the arguments of the match that was just served
    matched,    \* the list it returned
    op,         \* the operation that produced the current state
    arg,        \* the arguments of the pure function under check
    ret,        \* its return value
    frame,      \* the local variables and position of a load_all in progress
    requests,   \* the local variables and position of each match in progress
    history     \* history: every list assigned to self.cves while load_all
                \* is followed statement by statement

vars ==
    <<cves, outcomes, loaded, before, query, matched, op, arg, ret,
      frame, requests, history>>

-----------------------------------------------------------------------------
(* Characters and strings                                                  *)

\* The characters of the model in code-point order; the last one is
\* U+00B2, for which str.isdigit() is true and int() raises ValueError.
Ascii ==
    << " ", "-", ".",
       "0", "1", "2", "3", "4", "5", "6", "7", "8", "9",
       "A", "B", "C", "D", "E", "F", "G", "H", "I", "J", "K", "L", "M",
       "N", "O", "P", "Q", "R", "S", "T", "U", "V", "W", "X", "Y", "Z",
       "a", "b", "c", "d", "e", "f", "g", "h", "i", "j", "k", "l", "m",
       "n", "o", "p", "q", "r", "s", "t", "u", "v", "w", "x", "y", "z",
       "^2" >>

Code(ch) == CHOOSE i \in 1..Len(Ascii) : Ascii[i] = ch

DecimalDigits == <<"0", "1", "2", "3", "4", "5", "6", "7", "8", "9">>

IsDecimal(ch) == \E i \in 1..Len(DecimalDigits) : DecimalDigits[i] = ch

DigitValue(ch) == (CHOOSE i \in 1..Len(DecimalDigits) : DecimalDigits[i] = ch) - 1

\* str.isdigit()
IsDigit(ch) == IsDecimal(ch) \/ ch = "^2"

UpperCase ==
    << "A", "B", "C", "D", "E", "F", "G", "H", "I", "J", "K", "L", "M",
       "N", "O", "P", "Q", "R", "S", "T", "U", "V", "W", "X", "Y", "Z" >>

LowerCase ==
    << "a", "b", "c", "d", "e", "f", "g", "h", "i", "j", "k", "l", "m",
       "n", "o", "p", "q", "r", "s", "t", "u", "v", "w", "x", "y", "z" >>

LowerChar(ch) ==
    IF \E i \in 1..Len(UpperCase) : UpperCase[i] = ch
    THEN LowerCase[CHOOSE i \in 1..Len(UpperCase) : UpperCase[i] = ch]
    ELSE ch

\* str.lower()
Lower(s) == [i \in 1..Len(s) |-> LowerChar(s[i])]

\* None
None == <<"None">>

\* `x or ""` for an Optional[str]
OrEmpty(s) == IF s = None THEN <<>> ELSE s

\* the characters str.strip() removes
Whitespace == {" "}

RECURSIVE LStrip(_, _)
LStrip(s, chars) ==
    IF s # <<>> /\ Head(s) \in chars THEN LStrip(Tail(s), chars) ELSE s

RECURSIVE RStrip(_, _)
RStrip(s, chars) ==
    IF s # <<>> /\ s[Len(s)] \in chars
    THEN RStrip(SubSeq(s, 1, Len(s) - 1), chars)
    ELSE s

\* str.strip()
Strip(s) == RStrip(LStrip(s, Whitespace), Whitespace)

\* a strip(".") that strips nothing
KeepDots(s) == s

\* str.strip(".")
StripDots(s) == RStrip(LStrip(s, {"."}), {"."})

\* a in b, for strings
Contains(b, a) ==
    \E i \in 0..(Len(b) - Len(a)) : SubSeq(b, i + 1, i + Len(a)) = a

\* a < b, for strings: lexicographic in code points, a proper prefix first
RECURSIVE StrLess(_, _)
StrLess(a, b) ==
    IF b = <<>> THEN FALSE
    ELSE IF a = <<>> THEN TRUE
    ELSE IF Head(a) # Head(b) THEN Code(Head(a)) < Code(Head(b))
    ELSE StrLess(Tail(a), Tail(b))

-----------------------------------------------------------------------------
(* Version parsing and comparison                                          *)

\* the loop of _tokenize_version that stops at the first other character
RECURSIVE Cleaned(_)
Cleaned(v) ==
    IF v = <<>> THEN <<>>
    ELSE IF IsDigit(Head(v)) \/ Head(v) = "." THEN <<Head(v)>> \o Cleaned(Tail(v))
    ELSE <<>>

\* s.split(".")
RECURSIVE SplitDots(_)
SplitDots(s) ==
    IF \A i \in 1..Len(s) : s[i] # "." THEN <<s>>
    ELSE LET k == CHOOSE i \in 1..Len(s) :
                      s[i] = "." /\ \A j \in 1..(i - 1) : s[j] # "."
         IN  <<SubSeq(s, 1, k - 1)>> \o SplitDots(SubSeq(s, k + 1, Len(s)))

RECURSIVE DecimalValue(_)
DecimalValue(p) ==
    IF p = <<>> THEN 0
    ELSE 10 * DecimalValue(SubSeq(p, 1, Len(p) - 1)) + DigitValue(p[Len(p)])

\* int(p), with the ValueError of an empty or non-decimal segment caught
IntOrZero(p) ==
    IF p # <<>> /\ \A i \in 1..Len(p) : IsDecimal(p[i]) THEN DecimalValue(p) ELSE 0

RECURSIVE PadTo(_, _)
PadTo(nums, n) == IF Len(nums) < n THEN PadTo(Append(nums, 0), n) ELSE nums

MinComponents == 3

_tokenize_version(v0) ==
    LET v == Strip(OrEmpty(v0))
        s == StripDots(Cleaned(v))
        parts == SplitDots(s)
        nums == [i \in 1..Len(parts) |-> IntOrZero(parts[i])]
    IN  IF v = <<>> THEN <<0>>
        ELSE IF s = <<>> THEN <<0>>
        ELSE PadTo(nums, MinComponents)

\* ta < tb, for tuples of integers
RECURSIVE TupleLess(_, _)
TupleLess(a, b) ==
    IF b = <<>> THEN FALSE
    ELSE IF a = <<>> THEN TRUE
    ELSE IF Head(a) # Head(b) THEN Head(a) < Head(b)
    ELSE TupleLess(Tail(a), Tail(b))

Max(a, b) == IF a > b THEN a ELSE b

\* the comparison of the token tuples as they are, without the padding
CompareUnpadded(a, b) ==
    LET ta == _tokenize_version(a)
        tb == _tokenize_version(b)
    IN  IF TupleLess(ta, tb) THEN -1
        ELSE IF TupleLess(tb, ta) THEN 1
        ELSE 0

compare_versions(a, b) ==
    LET ta0 == _tokenize_version(a)
        tb0 == _tokenize_version(b)
        max_len == Max(Len(ta0), Len(tb0))
        ta == PadTo(ta0, max_len)
        tb == PadTo(tb0, max_len)
    IN  IF TupleLess(ta, tb) THEN -1
        ELSE IF TupleLess(tb, ta) THEN 1
        ELSE 0

-----------------------------------------------------------------------------
(* Platform matching                                                       *)

normalize_platform(p) == Lower(Strip(OrEmpty(p)))

IosXe == <<"i", "o", "s", " ", "x", "e">>

\* platform_matches without the family wildcard of the record side
MatchesWithoutFamilyEntry(query_platform, cve_platforms) ==
    LET qp == normalize_platform(query_platform)
        norm_list == [i \in 1..Len(cve_platforms) |->
                          normalize_platform(cve_platforms[i])]
    IN  IF qp = <<>> THEN FALSE
        ELSE IF Contains(qp, IosXe) THEN TRUE
        ELSE \E i \in 1..Len(norm_list) :
                /\ norm_list[i] # <<>>
                /\ \/ qp = norm_list[i]
                   \/ Contains(norm_list[i], qp)
                   \/ Contains(qp, norm_list[i])

\* platform_matches without the `if not cp: continue` of its loop
MatchesEmptyEntries(query_platform, cve_platforms) ==
    LET qp == normalize_platform(query_platform)
        norm_list == [i \in 1..Len(cve_platforms) |->
                          normalize_platform(cve_platforms[i])]
    IN  IF qp = <<>> THEN FALSE
        ELSE IF Contains(qp, IosXe) THEN TRUE
        ELSE IF \E i \in 1..Len(norm_list) : norm_list[i] = IosXe THEN TRUE
        ELSE \E i \in 1..Len(norm_list) :
                \/ qp = norm_list[i]
                \/ Contains(norm_list[i], qp)
                \/ Contains(qp, norm_list[i])

platform_matches(query_platform, cve_platforms) ==
    LET qp == normalize_platform(query_platform)
        norm_list == [i \in 1..Len(cve_platforms) |->
                          normalize_platform(cve_platforms[i])]
    IN  IF qp = <<>> THEN FALSE
        ELSE IF Contains(qp, IosXe) THEN TRUE
        ELSE IF \E i \in 1..Len(norm_list) : norm_list[i] = IosXe THEN TRUE
        ELSE \E i \in 1..Len(norm_list) :
                /\ norm_list[i] # <<>>
                /\ \/ qp = norm_list[i]
                   \/ Contains(norm_list[i], qp)
                   \/ Contains(qp, norm_list[i])

-----------------------------------------------------------------------------
(* Records (models/cve_model.py)                                           *)

\* cvss_score: Optional[float] = None; a score is a number of tenths
NoScore == -1

Demo == <<"d", "e", "m", "o">>

\* CVEEntry(...) with the defaults of the optional fields
CVEEntry(cve_id, title, severity, platforms, min, max, description) ==
    [ cve_id        |-> cve_id,
      title         |-> title,
      severity      |-> severity,
      platforms     |-> platforms,
      affected      |-> [min |-> min, max |-> max],
      fixed_in      |-> None,
      tags          |-> <<>>,
      description   |-> description,
      workaround    |-> None,
      advisory_url  |-> None,
      confidence    |-> Demo,
      source        |-> None,
      cvss_score    |-> NoScore,
      cvss_vector   |-> None,
      cwe           |-> None,
      published     |-> None,
      last_modified |-> None,
      references    |-> <<>> ]

-----------------------------------------------------------------------------
(* Merge strategy                                                          *)

\* the fields _merge_entries fills from the patch, in the order of its loops
EnrichFields ==
    << "source", "cvss_score", "cvss_vector", "cwe", "published", "last_modified",
       "advisory_url", "title", "description" >>

\* val in (None, "", [])
IsMissing(f, val) ==
    IF f = "cvss_score" THEN val = NoScore ELSE val = None \/ val = <<>>

IsEnrichField(f) == \E i \in 1..Len(EnrichFields) : EnrichFields[i] = f

\* FillField with the patch's value taken whenever the patch has one
OverwriteField(f, base_val, patch_val) ==
    IF ~IsMissing(f, patch_val) THEN patch_val ELSE base_val

\* the value of an enrichable field after the merge
FillField(f, base_val, patch_val) ==
    IF IsMissing(f, base_val) /\ ~IsMissing(f, patch_val) THEN patch_val ELSE base_val

\* the loop over base_refs + patch_refs, with `seen` the members of merged
RECURSIVE DedupRefs(_, _)
DedupRefs(refs, merged) ==
    IF refs = <<>> THEN merged
    ELSE IF Head(refs) = <<>> THEN DedupRefs(Tail(refs), merged)
    ELSE IF \E i \in 1..Len(merged) : merged[i] = Head(refs)
         THEN DedupRefs(Tail(refs), merged)
    ELSE DedupRefs(Tail(refs), Append(merged, Head(refs)))

MergeRefs(base_refs, patch_refs) ==
    IF patch_refs # <<>> THEN DedupRefs(base_refs \o patch_refs, <<>>) ELSE base_refs

\* _merge_entries giving the enricher's entry in place of the merge
MergeTakingPatch(base, patch) == patch

_merge_entries(base, patch) ==
    [f \in DOMAIN base |->
        IF IsEnrichField(f) THEN FillField(f, base[f], patch[f])
        ELSE IF f = "references" THEN MergeRefs(base.references, patch.references)
        ELSE base[f]]

-----------------------------------------------------------------------------
(* Loading                                                                 *)

\* by_id is a dict: a list of entries with distinct IDs, in insertion order
HasId(by_id, cve_id) == \E i \in 1..Len(by_id) : by_id[i].cve_id = cve_id

IndexOf(by_id, cve_id) == CHOOSE i \in 1..Len(by_id) : by_id[i].cve_id = cve_id

\* a dict assignment that keeps the value a key already has
DictSetDefault(by_id, entry) ==
    IF HasId(by_id, entry.cve_id) THEN by_id ELSE Append(by_id, entry)

\* by_id[entry.cve_id] = entry
DictSet(by_id, entry) ==
    IF HasId(by_id, entry.cve_id)
    THEN [by_id EXCEPT ![IndexOf(by_id, entry.cve_id)] = entry]
    ELSE Append(by_id, entry)

\* for entry in loaded_by_provider[0]: by_id[entry.cve_id] = entry
RECURSIVE BaseEntries(_, _)
BaseEntries(by_id, entries) ==
    IF entries = <<>> THEN by_id
    ELSE BaseEntries(DictSet(by_id, Head(entries)), Tail(entries))

\* MergePatch with a patch for an unknown ID dropped
MergeKnownPatch(by_id, patch) ==
    IF HasId(by_id, patch.cve_id)
    THEN DictSet(by_id, _merge_entries(by_id[IndexOf(by_id, patch.cve_id)], patch))
    ELSE by_id

\* the body of the loop over the patches of one provider
MergePatch(by_id, patch) ==
    IF HasId(by_id, patch.cve_id)
    THEN DictSet(by_id, _merge_entries(by_id[IndexOf(by_id, patch.cve_id)], patch))
    ELSE DictSet(by_id, patch)

RECURSIVE MergeProvider(_, _)
MergeProvider(by_id, provider_entries) ==
    IF provider_entries = <<>> THEN by_id
    ELSE MergeProvider(MergePatch(by_id, Head(provider_entries)), Tail(provider_entries))

\* for provider_entries in loaded_by_provider[1:]
RECURSIVE MergeProviders(_, _)
MergeProviders(by_id, rest) ==
    IF rest = <<>> THEN by_id
    ELSE MergeProviders(MergeProvider(by_id, Head(rest)), Tail(rest))

\* a dict that starts from the records the engine already holds
OldDict(old_cves) == old_cves

\* the by_id dict load_all starts from
NewDict(old_cves) == <<>>

\* LoadedCves with the first provider that returned anything taken as the
\* base
RECURSIVE LoadedPromoting(_, _)
LoadedPromoting(old_cves, loaded_by_provider) ==
    IF loaded_by_provider = <<>> THEN NewDict(old_cves)
    ELSE IF Head(loaded_by_provider) = <<>>
         THEN LoadedPromoting(old_cves, Tail(loaded_by_provider))
    ELSE MergeProviders(BaseEntries(NewDict(old_cves), Head(loaded_by_provider)),
                        Tail(loaded_by_provider))

\* what load_all assigns to self.cves, given the engine's previous list and
\* loaded_by_provider
LoadedCves(old_cves, loaded_by_provider) ==
    IF loaded_by_provider = <<>> THEN NewDict(old_cves)
    ELSE MergeProviders(BaseEntries(NewDict(old_cves), Head(loaded_by_provider)),
                        Tail(loaded_by_provider))

\* what one provider contributes: its list, or [] when load() raised
Contribution(outcome) == IF outcome.raised THEN <<>> ELSE outcome.entries

-----------------------------------------------------------------------------
(* Matching                                                                *)

SevCritical == <<"c", "r", "i", "t", "i", "c", "a", "l">>

SevHigh == <<"h", "i", "g", "h">>

SevMedium == <<"m", "e", "d", "i", "u", "m">>

SevLow == <<"l", "o", "w">>

UnknownRank == 99

\* severity_rank.get((x.severity or "").lower(), 99)
SeverityRank(severity) ==
    LET sev == Lower(OrEmpty(severity))
    IN  IF sev = SevCritical THEN 0
        ELSE IF sev = SevHigh THEN 1
        ELSE IF sev = SevMedium THEN 2
        ELSE IF sev = SevLow THEN 3
        ELSE UnknownRank

\* KeyLess for a sort key without the record ID
RankLess(x, y) == SeverityRank(x.severity) < SeverityRank(y.severity)

\* key(x) < key(y) for the sort key (rank, cve_id)
KeyLess(x, y) ==
    \/ SeverityRank(x.severity) < SeverityRank(y.severity)
    \/ /\ SeverityRank(x.severity) = SeverityRank(y.severity)
       /\ StrLess(x.cve_id, y.cve_id)

\* list.sort(key=...) is stable: x goes after every element whose key is
\* not greater than its own
RECURSIVE InsertSorted(_, _)
InsertSorted(sorted, x) ==
    IF sorted = <<>> THEN <<x>>
    ELSE IF KeyLess(x, Head(sorted)) THEN <<x>> \o sorted
    ELSE <<Head(sorted)>> \o InsertSorted(Tail(sorted), x)

RECURSIVE SortByKey(_)
SortByKey(list) ==
    IF list = <<>> THEN <<>>
    ELSE InsertSorted(SortByKey(SubSeq(list, 1, Len(list) - 1)), list[Len(list)])

\* Applies with the upper end of the range excluded
AppliesBelowMax(cve, platform, version) ==
    /\ platform_matches(platform, cve.platforms)
    /\ compare_versions(version, cve.affected.min) >= 0
    /\ compare_versions(version, cve.affected.max) < 0

\* the three `continue` tests of match
Applies(cve, platform, version) ==
    /\ platform_matches(platform, cve.platforms)
    /\ compare_versions(version, cve.affected.min) >= 0
    /\ compare_versions(version, cve.affected.max) <= 0

RECURSIVE Filtered(_, _, _)
Filtered(list, platform, version) ==
    IF list = <<>> THEN <<>>
    ELSE IF Applies(Head(list), platform, version)
         THEN <<Head(list)>> \o Filtered(Tail(list), platform, version)
    ELSE Filtered(Tail(list), platform, version)

\* match returning every record with its severity in lowercase
MatchLowercased(engine_cves, platform, version) ==
    LET hits == SortByKey(Filtered(engine_cves, platform, version))
    IN  [i \in 1..Len(hits) |-> [hits[i] EXCEPT !.severity = Lower(@)]]

match(engine_cves, platform, version) ==
    SortByKey(Filtered(engine_cves, platform, version))

-----------------------------------------------------------------------------
(* Summary and recommended upgrade                                         *)

\* levels = {"critical": 0, "high": 0, "medium": 0, "low": 0}
Levels == [sev \in {SevCritical, SevHigh, SevMedium, SevLow} |-> 0]

\* the loop of summary with the severity taken as it is written
RECURSIVE CountAsWritten(_, _)
CountAsWritten(levels, list) ==
    IF list = <<>> THEN levels
    ELSE LET sev == OrEmpty(Head(list).severity)
         IN  CountAsWritten(IF sev \in DOMAIN levels
                            THEN [levels EXCEPT ![sev] = @ + 1]
                            ELSE levels,
                            Tail(list))

\* summary without the lower() of the severity
SummaryCaseSensitive(list) == CountAsWritten(Levels, list)

\* the loop of summary
RECURSIVE CountLevels(_, _)
CountLevels(levels, list) ==
    IF list = <<>> THEN levels
    ELSE LET sev == Lower(OrEmpty(Head(list).severity))
         IN  CountLevels(IF sev \in DOMAIN levels
                         THEN [levels EXCEPT ![sev] = @ + 1]
                         ELSE levels,
                         Tail(list))

summary(list) == CountLevels(Levels, list)

\* the test `s != ""` in place of the truth value of s
NotEmptyString(s) == s # <<>>

\* a Python string or None taken as a condition
Truthy(s) == s # None /\ s # <<>>

\* the candidates of recommended_upgrade
RECURSIVE Candidates(_)
Candidates(list) ==
    IF list = <<>> THEN <<>>
    ELSE LET cve == Head(list)
         IN  IF /\ Lower(OrEmpty(cve.severity)) \in {SevCritical, SevHigh}
                /\ Truthy(cve.fixed_in)
             THEN <<cve.fixed_in>> \o Candidates(Tail(list))
             ELSE Candidates(Tail(list))

\* the loop over candidates[1:] with the comparison turned around
RECURSIVE Newest(_, _)
Newest(best, rest) ==
    IF rest = <<>> THEN best
    ELSE Newest(IF compare_versions(Head(rest), best) > 0 THEN Head(rest) ELSE best,
                Tail(rest))

\* recommended_upgrade keeping the greatest candidate
RecommendNewest(list) ==
    LET candidates == Candidates(list)
    IN  IF candidates = <<>> THEN None
        ELSE Newest(Head(candidates), Tail(candidates))

\* the loop over candidates[1:]
RECURSIVE Best(_, _)
Best(best, rest) ==
    IF rest = <<>> THEN best
    ELSE Best(IF compare_versions(Head(rest), best) < 0 THEN Head(rest) ELSE best,
              Tail(rest))

recommended_upgrade(list) ==
    LET candidates == Candidates(list)
    IN  IF candidates = <<>> THEN None
        ELSE Best(Head(candidates), Tail(candidates))

-----------------------------------------------------------------------------
(* Security score (models/security_score.py, services/profile_service.py)  *)
(*                                                                         *)
(* A float is the integer number of its ten-thousandths until it is        *)
(* rounded, and the number of its hundredths once round(x, 2) was applied. *)
(* Every product of a base penalty and modifiers is a whole number of      *)
(* hundredths, and the binary product is within 1e-13 of it, so round()    *)
(* returns that number of hundredths.                                      *)

\* the ten-thousandths of 1.0
Unit == 10000

\* SEVERITY_PENALTIES
SEVERITY_PENALTIES ==
    [sev \in {SevCritical, SevHigh, SevMedium, SevLow} |->
        IF sev = SevCritical THEN 25
        ELSE IF sev = SevHigh THEN 15
        ELSE IF sev = SevMedium THEN 8
        ELSE 3]

\* SEVERITY_PENALTIES.get(severity, 8)
DefaultPenalty == 8

MODIFIER_EXPLOITED == 15000

MODIFIER_PATCHED == 7000

MODIFIER_AGED == 12000

AGE_THRESHOLD_DAYS == 365

ExploitedInWild ==
    <<"e", "x", "p", "l", "o", "i", "t", "e", "d", "-", "i", "n", "-",
      "w", "i", "l", "d">>

PatchAvailable ==
    <<"p", "a", "t", "c", "h", "-", "a", "v", "a", "i", "l", "a", "b", "l", "e">>

Aged == <<"a", "g", "e", "d">>

\* round() of n / d to an integer, ties going to the even neighbour
RoundHalfEven(n, d) ==
    LET q == n \div d
        r == n % d
    IN  IF 2 * r < d THEN q
        ELSE IF 2 * r > d THEN q + 1
        ELSE IF q % 2 = 0 THEN q
        ELSE q + 1

\* round(x, 2): ten-thousandths to hundredths
Round2(x) == RoundHalfEven(x, 100)

\* a * b for two floats in ten-thousandths
Times(a, b) == (a * b) \div Unit

\* s.split("T")[0]
BeforeT(s) ==
    IF \A i \in 1..Len(s) : s[i] # "T" THEN s
    ELSE SubSeq(s, 1, (CHOOSE i \in 1..Len(s) :
                          s[i] = "T" /\ \A j \in 1..(i - 1) : s[j] # "T") - 1)

\* s.split("-"), for the fields of a date
RECURSIVE SplitDashes(_)
SplitDashes(s) ==
    IF \A i \in 1..Len(s) : s[i] # "-" THEN <<s>>
    ELSE LET k == CHOOSE i \in 1..Len(s) :
                      s[i] = "-" /\ \A j \in 1..(i - 1) : s[j] # "-"
         IN  <<SubSeq(s, 1, k - 1)>> \o SplitDashes(SubSeq(s, k + 1, Len(s)))

AllDecimal(p) == p # <<>> /\ \A i \in 1..Len(p) : IsDecimal(p[i])

\* %Y: four digits
IsYearField(p) == Len(p) = 4 /\ AllDecimal(p)

\* %m: 1[0-2]|0[1-9]|[1-9]
IsMonthField(p) ==
    /\ Len(p) \in {1, 2}
    /\ AllDecimal(p)
    /\ DecimalValue(p) \in 1..12

\* %d: 3[01]|[12]\d|0[1-9]|[1-9]| [1-9]
IsDayField(p) ==
    \/ /\ Len(p) \in {1, 2}
       /\ AllDecimal(p)
       /\ DecimalValue(p) \in 1..31
    \/ /\ Len(p) = 2
       /\ p[1] = " "
       /\ IsDecimal(p[2])
       /\ p[2] # "0"

IsLeap(y) == y % 4 = 0 /\ (y % 100 # 0 \/ y % 400 = 0)

DaysInMonth(y, m) ==
    IF m = 2 THEN (IF IsLeap(y) THEN 29 ELSE 28)
    ELSE IF m \in {4, 6, 9, 11} THEN 30
    ELSE 31

RECURSIVE DaysBeforeMonth(_, _)
DaysBeforeMonth(y, m) ==
    IF m = 1 THEN 0 ELSE DaysBeforeMonth(y, m - 1) + DaysInMonth(y, m - 1)

\* date.toordinal(): the days from 0001-01-01, which is day 1
ToOrdinal(y, m, d) ==
    LET py == y - 1
    IN  365 * py + (py \div 4) - (py \div 100) + (py \div 400)
            + DaysBeforeMonth(y, m) + d

\* datetime.strptime(s, "%Y-%m-%d"): the ordinal of the day, or the
\* ValueError of a string that is no date in that format
strptime(s) ==
    LET parts == SplitDashes(s)
        wellformed == /\ Len(parts) = 3
                      /\ IsYearField(parts[1])
                      /\ IsMonthField(parts[2])
                      /\ IsDayField(parts[3])
        y == DecimalValue(parts[1])
        m == DecimalValue(parts[2])
        d == IF parts[3][1] = " " THEN DigitValue(parts[3][2])
             ELSE DecimalValue(parts[3])
    IN  IF wellformed /\ y >= 1 /\ d <= DaysInMonth(y, m)
        THEN [raised |-> FALSE, ordinal |-> ToOrdinal(y, m, d)]
        ELSE [raised |-> TRUE, ordinal |-> 0]

\* the absent age of _cve_age_days
NoAge == [known |-> FALSE, days |-> 0]

\* _cve_age_days, with datetime.now() on the day of ordinal today
_cve_age_days(cve, today) ==
    IF ~Truthy(cve.published) THEN NoAge
    ELSE LET published_date == strptime(BeforeT(cve.published))
         IN  IF published_date.raised THEN NoAge
             ELSE [known |-> TRUE, days |-> today - published_date.ordinal]

\* the tag test with the letter case of the tags ignored
HasTagAnyCase(tags) == \E i \in 1..Len(tags) : Lower(tags[i]) = ExploitedInWild

\* `cve.tags and "exploited-in-wild" in cve.tags`
HasExploitedTag(tags) == \E i \in 1..Len(tags) : tags[i] = ExploitedInWild

_calculate_cve_breakdown(cve, today) ==
    LET severity == IF Truthy(cve.severity) THEN Lower(cve.severity) ELSE SevMedium
        base_penalty == IF severity \in DOMAIN SEVERITY_PENALTIES
                        THEN SEVERITY_PENALTIES[severity]
                        ELSE DefaultPenalty
        exploited == HasExploitedTag(cve.tags)
        patched == Truthy(cve.fixed_in)
        age_days == _cve_age_days(cve, today)
        aged == age_days.known /\ age_days.days > AGE_THRESHOLD_DAYS
        m1 == IF exploited THEN Times(Unit, MODIFIER_EXPLOITED) ELSE Unit
        m2 == IF patched THEN Times(m1, MODIFIER_PATCHED) ELSE m1
        modifier_value == IF aged THEN Times(m2, MODIFIER_AGED) ELSE m2
        final_penalty == base_penalty * modifier_value
    IN  [ cve_id            |-> cve.cve_id,
          cvss_score        |-> cve.cvss_score,
          severity          |-> severity,
          base_penalty      |-> base_penalty * 100,
          modifiers_applied |-> (IF exploited THEN <<ExploitedInWild>> ELSE <<>>)
                                \o (IF patched THEN <<PatchAvailable>> ELSE <<>>)
                                \o (IF aged THEN <<Aged>> ELSE <<>>),
          modifier_value    |-> Round2(modifier_value),
          final_penalty     |-> Round2(final_penalty) ]

LabelExcellent == <<"E", "x", "c", "e", "l", "l", "e", "n", "t">>

LabelGood == <<"G", "o", "o", "d">>

LabelFair == <<"F", "a", "i", "r">>

LabelPoor == <<"P", "o", "o", "r">>

LabelCritical == <<"C", "r", "i", "t", "i", "c", "a", "l">>

\* the thresholds taken as strict lower limits
LabelAboveThreshold(score) ==
    IF score = NoScore THEN None
    ELSE IF score > 90 THEN LabelExcellent
    ELSE IF score > 70 THEN LabelGood
    ELSE IF score > 50 THEN LabelFair
    ELSE IF score > 25 THEN LabelPoor
    ELSE LabelCritical

\* an absent score is NoScore
get_score_label(score) ==
    IF score = NoScore THEN None
    ELSE IF score >= 90 THEN LabelExcellent
    ELSE IF score >= 70 THEN LabelGood
    ELSE IF score >= 50 THEN LabelFair
    ELSE IF score >= 25 THEN LabelPoor
    ELSE LabelCritical

\* sum(...) of a list of numbers
RECURSIVE Total(_)
Total(list) == IF list = <<>> THEN 0 ELSE Head(list) + Total(Tail(list))

RECURSIVE MinOf(_)
MinOf(list) ==
    IF Len(list) = 1 THEN Head(list)
    ELSE LET m == MinOf(Tail(list)) IN IF Head(list) <= m THEN Head(list) ELSE m

RECURSIVE MaxOf(_)
MaxOf(list) ==
    IF Len(list) = 1 THEN Head(list)
    ELSE LET m == MaxOf(Tail(list)) IN IF Head(list) >= m THEN Head(list) ELSE m

\* round(100 - total_final) without the floor
ScoreUnfloored(total_final) == RoundHalfEven(100 * 100 - total_final, 100)

\* max(0, round(100 - total_final)), total_final in hundredths
ScoreOf(total_final) == Max(0, RoundHalfEven(100 * 100 - total_final, 100))

\* a profile counts as unknown only when it lacks both fields
LacksBoth(platform, version) == ~Truthy(platform) /\ ~Truthy(version)

\* `not platform or not version`
LacksDeviceInfo(platform, version) == ~Truthy(platform) \/ ~Truthy(version)

\* SecurityScoreSummary()
SecurityScoreSummary ==
    [excellent |-> 0, good |-> 0, fair |-> 0, poor |-> 0, critical |-> 0,
     unknown |-> 0]

\* the summary counters after a profile scored `score`
Counted(counters, score) ==
    IF score >= 90 THEN [counters EXCEPT !.excellent = @ + 1]
    ELSE IF score >= 70 THEN [counters EXCEPT !.good = @ + 1]
    ELSE IF score >= 50 THEN [counters EXCEPT !.fair = @ + 1]
    ELSE IF score >= 25 THEN [counters EXCEPT !.poor = @ + 1]
    ELSE [counters EXCEPT !.critical = @ + 1]

\* ProfileSecurityScore of a profile without platform or version
UnknownScore(name, platform, version) ==
    [ profile_name        |-> name,
      platform            |-> platform,
      version             |-> version,
      score               |-> NoScore,
      label               |-> None,
      cve_count           |-> 0,
      cve_breakdown       |-> <<>>,
      total_base_penalty  |-> 0,
      total_final_penalty |-> 0 ]

\* the field called field of every breakdown of the list
FieldOf(breakdowns, field) == [i \in 1..Len(breakdowns) |-> breakdowns[i][field]]

\* ProfileSecurityScore of a profile with the breakdowns of its matches
ScoredProfile(name, platform, version, breakdowns) ==
    [ profile_name        |-> name,
      platform            |-> platform,
      version             |-> version,
      score               |-> ScoreOf(Total(FieldOf(breakdowns, "final_penalty"))),
      label               |-> get_score_label(
                                  ScoreOf(Total(FieldOf(breakdowns, "final_penalty")))),
      cve_count           |-> Len(breakdowns),
      cve_breakdown       |-> breakdowns,
      total_base_penalty  |-> Total(FieldOf(breakdowns, "base_penalty")),
      total_final_penalty |-> Total(FieldOf(breakdowns, "final_penalty")) ]

\* [self._calculate_cve_breakdown(cve) for cve in matched]
RECURSIVE Breakdowns(_, _)
Breakdowns(hits, today) ==
    IF hits = <<>> THEN <<>>
    ELSE <<_calculate_cve_breakdown(Head(hits), today)>>
         \o Breakdowns(Tail(hits), today)

\* ProfileSecurityScore of a profile that was matched against the engine
ProfileScore(engine_cves, name, platform, version, today) ==
    ScoredProfile(name, platform, version,
                  Breakdowns(match(engine_cves, platform, version), today))

\* the accumulators of the loop after a profile without platform or version
RecordedUnknown(acc, p) ==
    [acc EXCEPT !.results = Append(@, UnknownScore(p.name, p.platform, p.version)),
                !.summary = [@ EXCEPT !.unknown = @ + 1]]

\* the accumulators of the loop after a profile was scored with `result`
RecordedScore(acc, result) ==
    [acc EXCEPT !.results = Append(@, result),
                !.scores_for_avg = Append(@, result.score),
                !.summary = Counted(@, result.score)]

\* the body of the loop; a profile whose file is gone when it is loaded is
\* skipped
LoopBody(acc, p, engine_cves, today) ==
    IF ~p.found THEN acc
    ELSE IF LacksDeviceInfo(p.platform, p.version) THEN RecordedUnknown(acc, p)
    ELSE RecordedScore(acc,
                       ProfileScore(engine_cves, p.name, p.platform, p.version, today))

\* the loop over profile_names
RECURSIVE ScoreLoop(_, _, _, _)
ScoreLoop(acc, profiles, engine_cves, today) ==
    IF profiles = <<>> THEN acc
    ELSE ScoreLoop(LoopBody(acc, Head(profiles), engine_cves, today),
                   Tail(profiles), engine_cves, today)

\* round(sum(scores) / len(scores), 1), in tenths
AverageOf(scores) == RoundHalfEven(10 * Total(scores), Len(scores))

\* the SecurityScoreResponse built from what the loop left behind; the
\* timestamp is left out
Response(done) ==
    [ profiles_checked |-> Len(done.results),
      average_score    |-> IF done.scores_for_avg # <<>>
                           THEN AverageOf(done.scores_for_avg) ELSE NoScore,
      lowest_score     |-> IF done.scores_for_avg # <<>>
                           THEN MinOf(done.scores_for_avg) ELSE NoScore,
      highest_score    |-> IF done.scores_for_avg # <<>>
                           THEN MaxOf(done.scores_for_avg) ELSE NoScore,
      summary          |-> done.summary,
      results          |-> done.results ]

\* calculate_all_security_scores: outs is what the providers of the new
\* engine do, profiles the directory in the order of list_profiles
calculate_all_security_scores(outs, profiles, today) ==
    Response(ScoreLoop([results |-> <<>>,
                        summary |-> SecurityScoreSummary,
                        scores_for_avg |-> <<>>],
                       profiles,
                       LoadedCves(<<>>, [i \in 1..Len(outs) |-> Contribution(outs[i])]),
                       today))

-----------------------------------------------------------------------------
(* Vulnerability status (services/profile_service.py)                      *)
(*                                                                         *)
(* A CVSS score is the integer number of its tenths.                       *)

StatusClean == <<"c", "l", "e", "a", "n">>

StatusUnknown == <<"u", "n", "k", "n", "o", "w", "n">>

\* _determine_status with the thresholds taken as strict bounds
StatusAboveThreshold(max_cvss) ==
    IF max_cvss = NoScore THEN StatusClean
    ELSE IF max_cvss > 90 THEN SevCritical
    ELSE IF max_cvss > 70 THEN SevHigh
    ELSE IF max_cvss > 40 THEN SevMedium
    ELSE IF max_cvss > 0 THEN SevLow
    ELSE StatusClean

_determine_status(max_cvss) ==
    IF max_cvss = NoScore THEN StatusClean
    ELSE IF max_cvss >= 90 THEN SevCritical
    ELSE IF max_cvss >= 70 THEN SevHigh
    ELSE IF max_cvss >= 40 THEN SevMedium
    ELSE IF max_cvss > 0 THEN SevLow
    ELSE StatusClean

\* the loop over matched that computes max_cvss
RECURSIVE MaxCvss(_, _)
MaxCvss(max_cvss, hits) ==
    IF hits = <<>> THEN max_cvss
    ELSE MaxCvss(IF /\ Head(hits).cvss_score # NoScore
                    /\ (max_cvss = NoScore \/ Head(hits).cvss_score > max_cvss)
                 THEN Head(hits).cvss_score
                 ELSE max_cvss,
                 Tail(hits))

\* ProfileVulnerabilitySummary()
ProfileVulnerabilitySummary ==
    [critical |-> 0, high |-> 0, medium |-> 0, low |-> 0, clean |-> 0, unknown |-> 0]

\* the summary counters after a profile of the given status
CountedStatus(counters, status) ==
    IF status = SevCritical THEN [counters EXCEPT !.critical = @ + 1]
    ELSE IF status = SevHigh THEN [counters EXCEPT !.high = @ + 1]
    ELSE IF status = SevMedium THEN [counters EXCEPT !.medium = @ + 1]
    ELSE IF status = SevLow THEN [counters EXCEPT !.low = @ + 1]
    ELSE IF status = StatusClean THEN [counters EXCEPT !.clean = @ + 1]
    ELSE counters

\* ProfileVulnerabilityResult of a profile without platform or version
UnknownResult(name, platform, version) ==
    [ profile_name |-> name,
      platform     |-> platform,
      version      |-> version,
      status       |-> StatusUnknown,
      cve_count    |-> 0,
      max_cvss     |-> NoScore,
      cves         |-> <<>> ]

\* ProfileVulnerabilityResult of a profile with the records it matched
CheckedProfile(name, platform, version, hits) ==
    [ profile_name |-> name,
      platform     |-> platform,
      version      |-> version,
      status       |-> _determine_status(MaxCvss(NoScore, hits)),
      cve_count    |-> Len(hits),
      max_cvss     |-> MaxCvss(NoScore, hits),
      cves         |-> [i \in 1..Len(hits) |-> hits[i].cve_id] ]

\* the accumulators after a profile without platform or version, with the
\* unknown counter left alone
CheckedUnknownUncounted(acc, p) ==
    [acc EXCEPT !.results = Append(@, UnknownResult(p.name, p.platform, p.version))]

\* the accumulators of the loop after a profile without platform or version
CheckedUnknown(acc, p) ==
    [acc EXCEPT !.results = Append(@, UnknownResult(p.name, p.platform, p.version)),
                !.summary = [@ EXCEPT !.unknown = @ + 1]]

\* the accumulators of the loop after a profile was checked with `result`
CheckedResult(acc, result) ==
    [acc EXCEPT !.results = Append(@, result),
                !.summary = CountedStatus(@, result.status)]

\* the body of the loop of check_all_vulnerabilities; a profile whose file
\* is gone when it is loaded is skipped
CheckBody(acc, p, engine_cves) ==
    IF ~p.found THEN acc
    ELSE IF LacksDeviceInfo(p.platform, p.version) THEN CheckedUnknown(acc, p)
    ELSE CheckedResult(acc,
                       CheckedProfile(p.name, p.platform, p.version,
                                      match(engine_cves, p.platform, p.version)))

\* the loop over profile_names
RECURSIVE CheckLoop(_, _, _)
CheckLoop(acc, profiles, engine_cves) ==
    IF profiles = <<>> THEN acc
    ELSE CheckLoop(CheckBody(acc, Head(profiles), engine_cves),
                   Tail(profiles), engine_cves)

\* the ProfileVulnerabilitiesResponse built from what the loop left behind;
\* the timestamp is left out
VulnerabilitiesResponse(done) ==
    [ profiles_checked |-> Len(done.results),
      summary          |-> done.summary,
      results          |-> done.results ]

\* check_all_vulnerabilities: outs is what the providers of the new engine
\* do, profiles the directory in the order of list_profiles
check_all_vulnerabilities(outs, profiles) ==
    VulnerabilitiesResponse(
        CheckLoop([results |-> <<>>, summary |-> ProfileVulnerabilitySummary],
                  profiles,
                  LoadedCves(<<>>, [i \in 1..Len(outs) |-> Contribution(outs[i])])))

-----------------------------------------------------------------------------
(* Providers (services/cve_sources.py)                                     *)

LocalJsonName == <<"l", "o", "c", "a", "l", "-", "j", "s", "o", "n">>

NvdName == <<"n", "v", "d">>

Partial == <<"p", "a", "r", "t", "i", "a", "l">>

IosXeFamily == <<"I", "O", "S", " ", "X", "E">>

NvdMin == <<"0", ".", "0", ".", "0">>

NvdMax == <<"9", "9", "9", ".", "9", "9", "9", ".", "9", "9", "9">>

\* `x or y`
Or(x, y) == IF x = None \/ x = <<>> THEN y ELSE x

\* LocalJsonProvider._ensure_source
_ensure_source(entry) ==
    IF entry.source # None /\ entry.source # <<>> THEN entry
    ELSE [entry EXCEPT !.source = LocalJsonName]

\* the "patch" CVEEntry NvdEnricherProvider.load builds from a NormalizedCVE
NvdPatch(n, cve_id) ==
    [ cve_id        |-> n.cve_id,
      title         |-> Or(n.title, cve_id),
      severity      |-> Or(n.severity, SevMedium),
      platforms     |-> <<IosXeFamily>>,
      affected      |-> [min |-> NvdMin, max |-> NvdMax],
      fixed_in      |-> None,
      tags          |-> <<>>,
      description   |-> Or(n.description, <<>>),
      workaround    |-> None,
      advisory_url  |-> None,
      confidence    |-> Partial,
      source        |-> NvdName,
      cvss_score    |-> n.cvss_score,
      cvss_vector   |-> n.cvss_vector,
      cwe           |-> n.cwe,
      published     |-> n.published,
      last_modified |-> n.last_modified,
      \* n.references or []: NvdImporter.parse always passes a list
      references    |-> n.references ]

RECURSIVE NvdPatches(_, _)
NvdPatches(normalized, cve_id) ==
    IF normalized = <<>> THEN <<>>
    ELSE <<NvdPatch(Head(normalized), cve_id)>> \o NvdPatches(Tail(normalized), cve_id)

\* NvdEnricherProvider.load: responses[i] tells whether the lookup and parse
\* of cve_ids[i] raised, and the list of NormalizedCVE it gave otherwise
RECURSIVE NvdLoad(_, _)
NvdLoad(cve_ids, responses) ==
    IF cve_ids = <<>> THEN <<>>
    ELSE (IF Head(responses).failed THEN <<>>
          ELSE NvdPatches(Head(responses).normalized, Head(cve_ids)))
         \o NvdLoad(Tail(cve_ids), Tail(responses))

JsonSuffix == <<".", "j", "s", "o", "n">>

\* str.endswith
endswith(s, suffix) ==
    /\ Len(s) >= Len(suffix)
    /\ SubSeq(s, Len(s) - Len(suffix) + 1, Len(s)) = suffix

\* the try block of LocalJsonProvider.load: open() and json.load() raise on
\* a file that does not parse, CVEEntry(**data) raises on data that is not a
\* record
FileRaises(file) == ~file.parsed \/ ~file.valid

\* the loop of LocalJsonProvider.load returning at the first file that raises
RECURSIVE LocalLoadAborting(_, _)
LocalLoadAborting(results, listing) ==
    IF listing = <<>> THEN results
    ELSE IF ~endswith(Head(listing).filename, JsonSuffix)
         THEN LocalLoadAborting(results, Tail(listing))
    ELSE IF FileRaises(Head(listing)) THEN results
    ELSE LocalLoadAborting(Append(results, _ensure_source(Head(listing).entry)),
                           Tail(listing))

\* the loop of LocalJsonProvider.load over os.listdir(self.data_dir)
RECURSIVE LocalLoadFiles(_, _)
LocalLoadFiles(results, listing) ==
    IF listing = <<>> THEN results
    ELSE IF ~endswith(Head(listing).filename, JsonSuffix)
         THEN LocalLoadFiles(results, Tail(listing))
    ELSE IF FileRaises(Head(listing))
         THEN LocalLoadFiles(results, Tail(listing))
    ELSE LocalLoadFiles(Append(results, _ensure_source(Head(listing).entry)),
                        Tail(listing))

\* LocalJsonProvider.load
LocalLoad(dir) ==
    IF ~dir.isdir THEN <<>> ELSE LocalLoadFiles(<<>>, dir.listing)

\* NvdEnricherProvider.__init__: `cve_ids or []`
NvdCveIds(cve_ids) == IF cve_ids.passed THEN cve_ids.ids ELSE <<>>

\* the locals of NvdEnricherProvider.load when no call has been made; lookups
\* and responses are the calls of http_get_json made so far and what each
\* lookup and parse gave
NoNvdCall ==
    [pc |-> "idle", cve_ids |-> <<>>, i |-> 0, out |-> <<>>,
     lookups |-> <<>>, responses |-> <<>>]

-----------------------------------------------------------------------------
(* Engine configuration (services/cve_engine.py)                           *)

CiscoName ==
    <<"c", "i", "s", "c", "o", "-", "a", "d", "v", "i", "s", "o", "r", "i", "e", "s">>

TenableName == <<"t", "e", "n", "a", "b", "l", "e">>

\* CVEEngineConfig(): the enrichers are off by default.  An Optional
\* argument is a record whose field `passed` tells whether it is not None.
CVEEngineConfig ==
    [ passed                  |-> TRUE,
      enable_nvd_enrichment   |-> FALSE,
      enable_cisco_provider   |-> FALSE,
      enable_tenable_provider |-> FALSE ]

\* os.getenv(name, ""): the environment maps a name to a string, or to None
\* when the variable is not set
Getenv(env, name) == IF env[name] = None THEN <<>> ELSE env[name]

\* _env_true comparing the value as it is written
EnvTrueExact(env, name) ==
    Getenv(env, name) \in {<<"1">>, <<"t", "r", "u", "e">>, <<"y", "e", "s">>, <<"o", "n">>}

_env_true(env, name) ==
    Lower(Strip(Getenv(env, name)))
        \in {<<"1">>, <<"t", "r", "u", "e">>, <<"y", "e", "s">>, <<"o", "n">>}

\* the provider names appended when the switch is on
Appended(enabled, name) == IF enabled THEN <<name>> ELSE <<>>

\* CVEEngine.__init__: the providers (by name) and the record set of the
\* new engine
__init__(config, providers, env) ==
    LET self_config == IF config.passed THEN config ELSE CVEEngineConfig
    IN  [ providers |->
            IF providers.passed THEN providers.list
            ELSE <<LocalJsonName>>
                 \o Appended(self_config.enable_nvd_enrichment
                                \/ _env_true(env, "CVE_NVD_ENRICH"), NvdName)
                 \o Appended(self_config.enable_cisco_provider
                                \/ _env_true(env, "CVE_CISCO_PROVIDER"), CiscoName)
                 \o Appended(self_config.enable_tenable_provider
                                \/ _env_true(env, "CVE_TENABLE_PROVIDER"), TenableName),
          cves |-> <<>> ]

-----------------------------------------------------------------------------
(* The data of the model                                                   *)

Cve1 == <<"C", "V", "E", "-", "1">>

Cve10 == <<"C", "V", "E", "-", "1", "0">>

Cve2 == <<"C", "V", "E", "-", "2">>

Isr4451 == <<"I", "S", "R", "4", "4", "5", "1", "-", "X">>

Asr1001 == <<"A", "S", "R", "1", "0", "0", "1", "-", "X">>

Asr9000 == <<"A", "S", "R", "9", "0", "0", "0">>

V17_3_0 == <<"1", "7", ".", "3", ".", "0">>

V17_3_1 == <<"1", "7", ".", "3", ".", "1">>

V17_5_0 == <<"1", "7", ".", "5", ".", "0">>

V17_6_9 == <<"1", "7", ".", "6", ".", "9">>

V17_7_0 == <<"1", "7", ".", "7", ".", "0">>

V17_7_1 == <<"1", "7", ".", "7", ".", "1">>

V16_12 == <<"1", "6", ".", "1", "2">>

RefU1 == <<"u", "1">>

RefU2 == <<"u", "2">>

RefU3 == <<"u", "3">>

ExtName == <<"e", "x", "t">>

\* The record files of the curated dataset, as parsed.  File1 and File1b
\* carry the same ID; File2's ID sorts between "CVE-1" and "CVE-2".
File1 ==
    [CVEEntry(Cve1, <<"T", "1">>, <<"C", "r", "i", "t", "i", "c", "a", "l">>,
              <<Isr4451, Asr1001>>, V17_3_1, V17_6_9, <<"D", "1">>)
        EXCEPT !.fixed_in = V17_7_1, !.references = <<RefU1>>]

File1b ==
    [CVEEntry(Cve1, <<>>, <<"h", "i", "g", "h">>,
              <<Asr9000>>, V16_12, V17_5_0, <<>>)
        EXCEPT !.source = <<"c", "i", "s", "c", "o">>,
               !.cvss_score = 0,
               !.references = <<RefU1, <<>>, RefU1>>]

File2 ==
    [CVEEntry(Cve10, <<"T", "2">>, <<"C", "R", "I", "T", "I", "C", "A", "L">>,
              <<Isr4451>>, V17_3_1, V17_6_9, <<"D", "2">>)
        EXCEPT !.advisory_url = <<"a", "d", "v">>]

LocalFiles == {File1, File1b, File2}

\* What the external database answers for the IDs the NVD enricher was given
NvdIds == <<Cve1, Cve2>>

NvdRecord(cve_id, severity, score) ==
    [ cve_id        |-> cve_id,
      title         |-> cve_id,
      severity      |-> severity,
      description   |-> <<"D", "N">>,
      cvss_score    |-> score,
      cvss_vector   |-> <<"A", "V">>,
      cwe           |-> <<"C", "W", "E", "-", "1">>,
      references    |-> <<RefU1, RefU2>>,
      published     |-> <<"2", "0", "2", "0", "-", "0", "1", "-", "0", "1">>,
      last_modified |-> None ]

NvdDb == << NvdRecord(Cve1, SevCritical, 98), NvdRecord(Cve2, SevCritical, 91) >>

\* The entries an injected third provider can return: a patch for CVE-1 and
\* a record for CVE-2, an ID the curated dataset does not have
Ext1 ==
    [CVEEntry(Cve1, <<"T", "X">>, SevLow, <<>>, <<>>, <<>>, <<"D", "X">>)
        EXCEPT !.source = ExtName,
               !.cvss_score = 75,
               !.last_modified = <<"2", "0", "2", "1", "-", "0", "2", "-", "0", "2">>,
               !.references = <<RefU3, RefU1>>]

Ext2 ==
    [CVEEntry(Cve2, <<"T", "Y">>, <<"I", "n", "f", "o">>,
              <<<<"I", "S", "R", "4", "4", "5", "1">>>>, V17_3_0, V17_7_0, <<>>)
        EXCEPT !.cvss_score = 40,
               !.advisory_url = <<"a", "d", "v">>]

ExtEntries == {Ext1, Ext2}

-----------------------------------------------------------------------------
(* Calls in progress                                                       *)

\* load_all is not running
NoFrame ==
    [pc |-> "idle", calls |-> <<>>, loaded_by_provider |-> <<>>, by_id |-> <<>>,
     k |-> 0, j |-> 0]

\* the most callers that use one engine at a time
MaxRequests == 2

\* a caller that is not inside a call of the engine
IdleRequest ==
    [pc |-> "idle", platform |-> None, version |-> None, list |-> <<>>, i |-> 0,
     matched |-> <<>>, epoch |-> 0]

NoRequests == [r \in 1..MaxRequests |-> IdleRequest]

-----------------------------------------------------------------------------
(* The engine as a state machine                                           *)

\* the longest list of record files the curated dataset holds
MaxFiles == 2

\* the lists of at most n distinct members of S, in every order
ListsOf(S, n) ==
    UNION {{l \in [1..k -> S] : \A i, j \in 1..k : i # j => l[i] # l[j]} : k \in 0..n}

\* what a call of provider.load() does: it raises, or it returns a list
Raised == [raised |-> TRUE, entries |-> <<>>]

Returned(entries) == [raised |-> FALSE, entries |-> entries]

LocalOutcomes ==
    {Raised} \cup
    {Returned([i \in 1..Len(files) |-> _ensure_source(files[i])]) :
        files \in ListsOf(LocalFiles, MaxFiles)}

NvdResponses ==
    {[i \in 1..Len(NvdIds) |->
        [failed |-> i \notin found,
         normalized |-> IF i \in found THEN <<NvdDb[i]>> ELSE <<>>]] :
        found \in SUBSET (1..Len(NvdIds))}

NvdOutcomes == {Returned(NvdLoad(NvdIds, responses)) : responses \in NvdResponses}

ExtOutcomes == {Raised} \cup {Returned(<<e>>) : e \in ExtEntries}

\* self.providers: the curated dataset, the NVD enricher, an injected provider
ProviderOutcomes == LocalOutcomes \X NvdOutcomes \X ExtOutcomes

QueryVersions == {V17_3_0, V17_3_1, V17_5_0, V17_6_9, V17_7_0}

\* the (platform, version) pairs match is called with
Queries ==
    {[platform |-> Isr4451, version |-> v] : v \in QueryVersions} \cup
    {[platform |-> <<"a", "s", "r", "9", "0", "0", "0", " ">>, version |-> V17_5_0],
     [platform |-> <<>>, version |-> V17_5_0]}

NoQuery == [platform |-> None, version |-> None]

Init ==
    /\ cves = <<>>
    /\ outcomes = <<>>
    /\ loaded = <<>>
    /\ before = <<>>
    /\ query = NoQuery
    /\ matched = <<>>
    /\ op = "init"
    /\ arg = <<>>
    /\ ret = <<>>
    /\ frame = NoFrame
    /\ requests = NoRequests
    /\ history = <<<<>>>>

\* an except clause that lets the provider's exception through
Uncaught(outcome) == FALSE

\* `except Exception` around provider.load()
Caught(outcome) == TRUE

load_all(outs) ==
    LET loaded_by_provider == [i \in 1..Len(outs) |-> Contribution(outs[i])]
    IN  /\ outcomes' = outs
        /\ query' = NoQuery
        /\ matched' = <<>>
        /\ UNCHANGED <<arg, ret, frame, requests, history>>
        /\ IF \E i \in 1..Len(outs) : outs[i].raised /\ ~Caught(outs[i])
           THEN /\ op' = "load_all raised"
                /\ loaded' = <<>>
                /\ UNCHANGED cves
           ELSE /\ op' = "load_all"
                /\ loaded' = loaded_by_provider
                /\ cves' = LoadedCves(cves, loaded_by_provider)

LoadAll == \E outs \in ProviderOutcomes : load_all(outs) /\ UNCHANGED before

Match ==
    \E q \in Queries :
        /\ query' = q
        /\ matched' = match(cves, q.platform, q.version)
        /\ op' = "match"
        /\ UNCHANGED <<cves, outcomes, loaded, before, arg, ret,
                     frame, requests, history>>

Next == LoadAll \/ Match

Spec == Init /\ [][Next]_vars

-----------------------------------------------------------------------------
(* Properties of match                                                     *)

InList(list, x) == \E i \in 1..Len(list) : list[i] = x

\* the record's platform list names the Isr4451 platform and its affected
\* range is 17.3.1 .. 17.6.9
IsRangeExample(cve) ==
    /\ InList(cve.platforms, Isr4451)
    /\ cve.affected.min = V17_3_1
    /\ cve.affected.max = V17_6_9

\* C1: the list match returns holds exactly the records of the engine's set
\* whose platform list covers the queried platform and whose affected range,
\* both ends included, holds the queried version; a record with the range
\* 17.3.1 .. 17.6.9 is returned for 17.3.1, 17.5.0 and 17.6.9 and is not
\* returned for 17.3.0 and 17.7.0.
C1_MatchReturnsExactlyApplicable ==
    op = "match" =>
        /\ \A i \in 1..Len(cves) :
              InList(matched, cves[i]) <=>
                  /\ platform_matches(query.platform, cves[i].platforms)
                  /\ compare_versions(query.version, cves[i].affected.min) >= 0
                  /\ compare_versions(query.version, cves[i].affected.max) <= 0
        /\ \A j \in 1..Len(matched) : InList(cves, matched[j])
        /\ \A j, k \in 1..Len(matched) : j # k => matched[j] # matched[k]
        /\ \A i \in 1..Len(cves) :
              query.platform = Isr4451 /\ IsRangeExample(cves[i]) =>
                  (InList(matched, cves[i]) <=>
                      query.version \in {V17_3_1, V17_5_0, V17_6_9})

\* a query at the upper end of a record's range returned that record and
\* left another record of the set out
C1_Witness ==
    /\ op = "match"
    /\ query.version = V17_6_9
    /\ \E j \in 1..Len(matched) : IsRangeExample(matched[j])
    /\ Len(matched) < Len(cves)

\* the rank the sort gives each severity string of the model's data
ExpectedRank(severity) ==
    IF severity \in {SevCritical, <<"C", "r", "i", "t", "i", "c", "a", "l">>,
                     <<"C", "R", "I", "T", "I", "C", "A", "L">>} THEN 0
    ELSE IF severity = SevHigh THEN 1
    ELSE IF severity = SevMedium THEN 2
    ELSE IF severity = SevLow THEN 3
    ELSE 99

\* C2: the list match returns is in ascending order of severity rank
\* (critical 0, high 1, medium 2, low 3, anything else 99, whatever the case
\* of the letters) and, among equal ranks, in ascending order of record ID;
\* no two of its records share rank and ID, so this order is the only one.
C2_MatchSortedBySeverityThenId ==
    op = "match" =>
        \A i, j \in 1..Len(matched) :
            i < j =>
                \/ ExpectedRank(matched[i].severity) < ExpectedRank(matched[j].severity)
                \/ /\ ExpectedRank(matched[i].severity) = ExpectedRank(matched[j].severity)
                   /\ StrLess(matched[i].cve_id, matched[j].cve_id)

PositionIn(list, x) == CHOOSE i \in 1..Len(list) : list[i] = x

\* match returned two records of equal rank in the opposite of the order the
\* providers supplied them in, followed by a record of unknown severity
C2_Witness ==
    /\ op = "match"
    /\ \E i, j \in 1..Len(matched) :
          /\ i < j
          /\ ExpectedRank(matched[i].severity) = ExpectedRank(matched[j].severity)
          /\ PositionIn(cves, matched[i]) > PositionIn(cves, matched[j])
    /\ ExpectedRank(matched[Len(matched)].severity) = 99

-----------------------------------------------------------------------------
(* _merge_entries on its own                                               *)

\* the most enrichable fields blanked, or left filled, at once in a base
MaxBlank == 2

\* the longest reference list of a base or a patch
MaxRefs == 2

EnrichFieldSet == {EnrichFields[i] : i \in 1..Len(EnrichFields)}

\* the fields of CVEEntry that are Optional, so that None passes validation
OptionalFields ==
    {"source", "cvss_score", "cvss_vector", "cwe", "published", "last_modified",
     "advisory_url", "fixed_in", "workaround"}

\* the missing value of field f: None where the field is Optional and
\* `absent` says so, "" otherwise
Blank(f, absent) ==
    IF f = "cvss_score" THEN NoScore
    ELSE IF absent /\ f \in OptionalFields THEN None
    ELSE <<>>

\* entry with the fields of `blanked` missing
Blanked(entry, blanked, absent) ==
    [f \in DOMAIN entry |-> IF f \in blanked THEN Blank(f, absent) ELSE entry[f]]

\* a curated record and an enrichment record, with every field filled
FullBase ==
    [CVEEntry(Cve1, <<"T", "1">>, SevHigh, <<Isr4451>>, V17_3_1, V17_6_9, <<"D", "1">>)
        EXCEPT !.fixed_in = V17_7_1,
               !.tags = <<<<"k", "e", "v">>>>,
               !.workaround = <<"w">>,
               !.advisory_url = <<"a", "d", "v">>,
               !.source = LocalJsonName,
               !.cvss_score = 0,
               !.cvss_vector = <<"L">>,
               !.cwe = <<"C", "W", "E", "-", "2">>,
               !.published = <<"2", "0", "1", "9">>,
               !.last_modified = <<"2", "0", "2", "0">>]

FullPatch == [NvdPatch(NvdDb[1], Cve1) EXCEPT
                 !.fixed_in = V17_5_0,
                 !.tags = <<<<"n">>>>,
                 !.workaround = <<"x">>,
                 !.advisory_url = <<"n", "v", "d", "-", "a", "d", "v">>,
                 !.last_modified = <<"2", "0", "2", "2">>]

\* the sets of at most n, or of all but at most n, enrichable fields
FieldSets(n) ==
    {F \in SUBSET EnrichFieldSet :
        Cardinality(F) <= n \/ Cardinality(F) >= Cardinality(EnrichFieldSet) - n}

RefLists == UNION {[1..k -> {<<>>, RefU1, RefU2}] : k \in 0..MaxRefs}

MergeInputs ==
    {[base  |-> Blanked(FullBase, bf, absent),
      patch |-> Blanked(FullPatch, pf, absent)] :
        bf \in FieldSets(MaxBlank), pf \in FieldSets(1), absent \in BOOLEAN}
    \cup
    {[base  |-> [Blanked(FullBase, bf, TRUE) EXCEPT !.references = br],
      patch |-> [FullPatch EXCEPT !.references = pr]] :
        bf \in {{}, {"cvss_score"}}, br \in RefLists, pr \in RefLists}

InitMerge ==
    /\ cves = <<>>
    /\ outcomes = <<>>
    /\ loaded = <<>>
    /\ before = <<>>
    /\ query = NoQuery
    /\ matched = <<>>
    /\ op = "input"
    /\ arg \in MergeInputs
    /\ ret = <<>>
    /\ frame = NoFrame
    /\ requests = NoRequests
    /\ history = <<<<>>>>

Merge ==
    /\ op = "input"
    /\ ret' = _merge_entries(arg.base, arg.patch)
    /\ op' = "_merge_entries"
    /\ UNCHANGED <<cves, outcomes, loaded, before, query, matched, arg,
                 frame, requests, history>>

NextMerge == Merge

SpecMerge == InitMerge /\ [][NextMerge]_vars

\* the metadata fields and the curated fields the claim names
MetadataFields ==
    {"source", "cvss_score", "cvss_vector", "cwe", "published", "last_modified",
     "advisory_url", "title", "description"}

CuratedFields ==
    {"platforms", "affected", "severity", "fixed_in", "tags", "workaround",
     "confidence", "cve_id"}

AbsentOrEmpty(f, val) ==
    IF f = "cvss_score" THEN val = NoScore ELSE val \in {None, <<>>}

\* C3: the merged record takes the patch's value for a metadata field only
\* where the base's value is absent or empty (and the patch has one); every
\* metadata field the base has filled keeps the base's value, and platforms,
\* affected range, severity, fixed-in, tags, workaround and confidence are
\* the base's.
C3_MergeFillsOnlyMissing ==
    op = "_merge_entries" =>
        /\ \A f \in MetadataFields :
              /\ ~AbsentOrEmpty(f, arg.base[f]) => ret[f] = arg.base[f]
              /\ AbsentOrEmpty(f, arg.base[f]) /\ ~AbsentOrEmpty(f, arg.patch[f])
                    => ret[f] = arg.patch[f]
              /\ ret[f] # arg.base[f]
                    => AbsentOrEmpty(f, arg.base[f]) /\ ret[f] = arg.patch[f]
        /\ \A f \in CuratedFields : ret[f] = arg.base[f]

\* a patch that carries a score and other metadata was merged onto a base
\* with curated title and description and no score: the score was filled
\* and the curated texts stayed
C3_Witness ==
    /\ op = "_merge_entries"
    /\ arg.base.cvss_score = NoScore
    /\ arg.base.title = <<"T", "1">>
    /\ arg.patch.title # arg.base.title
    /\ ret.cvss_score = arg.patch.cvss_score
    /\ ret.cvss_score # NoScore
    /\ ret.title = <<"T", "1">>
    /\ arg.patch.platforms # arg.base.platforms

Elements(list) == {list[i] : i \in 1..Len(list)}

\* r lists each non-empty member of base_refs \o patch_refs once, in the
\* order of first occurrence
IsOrderedUnion(r, base_refs, patch_refs) ==
    LET all == base_refs \o patch_refs
        First(x) == CHOOSE i \in 1..Len(all) :
                        all[i] = x /\ \A j \in 1..(i - 1) : all[j] # x
    IN  /\ Elements(r) = Elements(all) \ {<<>>}
        /\ \A i, j \in 1..Len(r) : i < j => r[i] # r[j] /\ First(r[i]) < First(r[j])

\* C4: the merged record's references are the union of the base's and the
\* patch's: base references first, in base order, then the patch's, in patch
\* order, without a duplicate and without an empty string, also when the
\* patch has no references.
C4_ReferencesAreOrderedUnion ==
    op = "_merge_entries" =>
        IsOrderedUnion(ret.references, arg.base.references, arg.patch.references)

-----------------------------------------------------------------------------
(* Properties of load_all                                                  *)

IdsOf(list) == {list[i].cve_id : i \in 1..Len(list)}

\* the IDs the providers of positions P supplied in the most recent load_all
SuppliedBy(P) == UNION {IdsOf(loaded[p]) : p \in P \cap (1..Len(loaded))}

RecordOf(list, cve_id) == list[CHOOSE i \in 1..Len(list) : list[i].cve_id = cve_id]

\* C5: load_all never ends with a provider's exception: a provider whose
\* load() raised contributes no record, a provider whose load() returned
\* contributes its list, and the record set is the merge of those
\* contributions, holding every ID a returning provider supplied.
C5_LoadAllSurvivesProviderFailure ==
    /\ op # "load_all raised"
    /\ op = "load_all" =>
          /\ Len(loaded) = Len(outcomes)
          /\ \A i \in 1..Len(outcomes) :
                loaded[i] = IF outcomes[i].raised THEN <<>> ELSE outcomes[i].entries
          /\ IdsOf(cves) =
                UNION {IdsOf(outcomes[i].entries) :
                          i \in {j \in 1..Len(outcomes) : ~outcomes[j].raised}}
          /\ cves = MergeProviders(BaseEntries(<<>>, loaded[1]), Tail(loaded))

\* the first provider raised, a later one raised too, and the remaining
\* provider's records were loaded
C5_Witness ==
    /\ op = "load_all"
    /\ outcomes[1].raised
    /\ outcomes[3].raised
    /\ ~outcomes[2].raised
    /\ Len(cves) = 2

\* Repeated load_all calls, with the record set each call found kept in
\* `before`; the external database answers every lookup or none, and the
\* injected provider returns the same patch in every call.
ReloadOutcomes ==
    LocalOutcomes
        \X {Returned(NvdLoad(NvdIds, responses)) :
               responses \in {r \in NvdResponses :
                                 \A i, j \in 1..Len(r) : r[i].failed = r[j].failed}}
        \X {Returned(<<Ext1>>)}

Reload == \E outs \in ReloadOutcomes : load_all(outs) /\ before' = cves

NextReload == Reload

SpecReload == Init /\ [][NextReload]_vars

\* C6: every load_all leaves the record set that the outputs of that call
\* alone determine: it holds the IDs these outputs supply and no other, it is
\* the merge of these outputs whatever the engine held before, and a call
\* whose providers return what they returned in the call before leaves the
\* record set as it was.
C6_LoadAllReplacesAndIsIdempotent ==
    [][op' = "load_all" =>
          /\ IdsOf(cves') = UNION {IdsOf(loaded'[p]) : p \in 1..Len(loaded')}
          /\ cves' = MergeProviders(BaseEntries(<<>>, loaded'[1]), Tail(loaded'))
          /\ (op = "load_all" /\ outcomes' = outcomes) => cves' = cves]_vars

\* a load_all found a loaded engine and left a record set without one of
\* the IDs it found and with an ID it did not find
C6_Witness ==
    /\ op = "load_all"
    /\ before # <<>>
    /\ IdsOf(before) \ IdsOf(cves) # {}
    /\ IdsOf(cves) \ IdsOf(before) # {}

\* the last entry of list that carries cve_id
LastWith(list, cve_id) ==
    list[CHOOSE i \in 1..Len(list) :
            /\ list[i].cve_id = cve_id
            /\ \A j \in (i + 1)..Len(list) : list[j].cve_id # cve_id]

\* C7: after load_all no two records of the set share an ID; the record of
\* an ID the first provider supplied has the curated fields, and every
\* metadata field that is not empty, of the last entry of the first
\* provider's output with that ID, also when an enricher supplied an entry
\* with the same ID.
C7_DistinctIdsLastBaseEntryKept ==
    op = "load_all" =>
        /\ \A i, j \in 1..Len(cves) : i # j => cves[i].cve_id # cves[j].cve_id
        /\ \A id \in SuppliedBy({1}) :
              LET kept == LastWith(loaded[1], id)
                  rec == RecordOf(cves, id)
              IN  /\ \A f \in CuratedFields : rec[f] = kept[f]
                  /\ \A f \in MetadataFields :
                        ~AbsentOrEmpty(f, kept[f]) => rec[f] = kept[f]

\* the first provider returned two entries with one ID, an enricher
\* returned an entry with that ID too, and the record kept has a field of
\* the enricher's entry
C7_Witness ==
    /\ op = "load_all"
    /\ Len(loaded[1]) = 2
    /\ loaded[1][1].cve_id = loaded[1][2].cve_id
    /\ loaded[1][2].title = <<>>
    /\ Cve1 \in SuppliedBy({3})
    /\ RecordOf(cves, Cve1).title = <<"T", "X">>

\* the entries of the enrichers in the order load_all merges them
RECURSIVE Concat(_)
Concat(lists) == IF lists = <<>> THEN <<>> ELSE Head(lists) \o Concat(Tail(lists))

Arrivals == Concat(Tail(loaded))

\* C8: an enricher's entry whose ID is not in the set when the entry is
\* merged is put into the set as it is: the record of that ID has every
\* curated field and every non-empty metadata field of the entry, its source
\* included, and is the entry itself when no other entry carries its ID.
C8_UnknownPatchInsertedAsIs ==
    op = "load_all" =>
        \A k \in 1..Len(Arrivals) :
            LET patch == Arrivals[k] IN
            (/\ patch.cve_id \notin SuppliedBy({1})
             /\ \A j \in 1..(k - 1) : Arrivals[j].cve_id # patch.cve_id)
            => /\ patch.cve_id \in IdsOf(cves)
               /\ \A f \in CuratedFields :
                     RecordOf(cves, patch.cve_id)[f] = patch[f]
               /\ \A f \in MetadataFields :
                     ~AbsentOrEmpty(f, patch[f]) =>
                         RecordOf(cves, patch.cve_id)[f] = patch[f]
               /\ (\A j \in (k + 1)..Len(Arrivals) : Arrivals[j].cve_id # patch.cve_id)
                     => RecordOf(cves, patch.cve_id) = patch

\* the NVD enricher alone supplied CVE-2 and the set holds its patch, with
\* the source "nvd"
C8_Witness ==
    /\ op = "load_all"
    /\ Cve2 \in SuppliedBy({2}) \ SuppliedBy({1, 3})
    /\ InList(cves, NvdPatch(NvdDb[2], Cve2))
    /\ RecordOf(cves, Cve2).source = NvdName

\* C9: match never returns a record whose ID only the NVD enricher
\* supplied.
C9_NvdOnlyRecordNeverMatched ==
    op = "match" =>
        \A j \in 1..Len(matched) :
            matched[j].cve_id \notin SuppliedBy({2}) \ SuppliedBy({1, 3})

-----------------------------------------------------------------------------
(* _tokenize_version on its own                                            *)

\* the longest version string drawn from VersionChars
MaxVersionLen == 5

VersionChars == {"0", "1", ".", "a", " ", "^2"}

V17_9_3 == <<"1", "7", ".", "9", ".", "3">>

V17_6_3a == <<"1", "7", ".", "6", ".", "3", "a">>

V17_6_3 == <<"1", "7", ".", "6", ".", "3">>

VersionInputs ==
    UNION {[1..k -> VersionChars] : k \in 0..MaxVersionLen}
    \cup {V17_9_3, V16_12, V17_6_3a, V17_6_3}

InitTokenize ==
    /\ cves = <<>>
    /\ outcomes = <<>>
    /\ loaded = <<>>
    /\ before = <<>>
    /\ query = NoQuery
    /\ matched = <<>>
    /\ op = "input"
    /\ arg \in VersionInputs
    /\ ret = <<>>
    /\ frame = NoFrame
    /\ requests = NoRequests
    /\ history = <<<<>>>>

Tokenize ==
    /\ op = "input"
    /\ ret' = _tokenize_version(arg)
    /\ op' = "_tokenize_version"
    /\ UNCHANGED <<cves, outcomes, loaded, before, query, matched, arg,
                 frame, requests, history>>

NextTokenize == Tokenize

SpecTokenize == InitTokenize /\ [][NextTokenize]_vars

\* v without the spaces around it
Trimmed(v) ==
    LET inner == {i \in 1..Len(v) : v[i] # " "}
    IN  IF inner = {} THEN <<>>
        ELSE SubSeq(v, CHOOSE i \in inner : \A j \in inner : i <= j,
                       CHOOSE i \in inner : \A j \in inner : i >= j)

\* the longest leading run of digits and dots of w
LeadingRun(w) ==
    LET n == CHOOSE k \in 0..Len(w) :
                 /\ \A i \in 1..k : IsDigit(w[i]) \/ w[i] = "."
                 /\ k < Len(w) => ~(IsDigit(w[k + 1]) \/ w[k + 1] = ".")
    IN  SubSeq(w, 1, n)

\* run without the dots before its first digit and after its last one
WithoutOuterDots(run) ==
    LET inner == {i \in 1..Len(run) : run[i] # "."}
    IN  IF inner = {} THEN <<>>
        ELSE SubSeq(run, CHOOSE i \in inner : \A j \in inner : i <= j,
                         CHOOSE i \in inner : \A j \in inner : i >= j)

RECURSIVE Power10(_)
Power10(n) == IF n = 0 THEN 1 ELSE 10 * Power10(n - 1)

RECURSIVE Sum(_, _)
Sum(f, n) == IF n = 0 THEN 0 ELSE f[n] + Sum(f, n - 1)

\* the integer a segment stands for: 0 when it is empty or holds a
\* character that is no decimal digit
SegmentValue(seg) ==
    IF seg = <<>> \/ \E i \in 1..Len(seg) : ~IsDecimal(seg[i]) THEN 0
    ELSE Sum([i \in 1..Len(seg) |-> DigitValue(seg[i]) * Power10(Len(seg) - i)],
             Len(seg))

\* the values of the segments between the dots of s, followed by zeros up
\* to three components
Components(s) ==
    LET dots == {i \in 1..Len(s) : s[i] = "."}
        count == Cardinality(dots) + 1
        \* the position of the k-th dot; 0 and Len(s) + 1 bracket the string
        Dot(k) == IF k = 0 THEN 0
                  ELSE IF k = count THEN Len(s) + 1
                  ELSE CHOOSE i \in dots : Cardinality({j \in dots : j < i}) = k - 1
    IN  [k \in 1..Max(count, 3) |->
            IF k <= count THEN SegmentValue(SubSeq(s, Dot(k - 1) + 1, Dot(k) - 1))
            ELSE 0]

\* the tuple the claim as written gives: the run is split as it is
TokensAsClaimed(v) ==
    LET run == LeadingRun(Trimmed(v))
    IN  IF \A i \in 1..Len(run) : ~IsDigit(run[i]) THEN <<0>> ELSE Components(run)

\* C10 as written: tokenize splits the leading run of digits and dots on
\* ".", an empty leading segment giving a leading 0 component.
C10_TokenizeSplitsWholeRun ==
    op = "_tokenize_version" => ret = TokensAsClaimed(arg)

\* C10, amended: tokenize trims the string, keeps its longest leading run of
\* digits and dots, drops the dots at both ends of the run, splits the rest
\* on ".", turns each segment into its integer, an empty or unparsable one
\* into 0, and pads with zeros to three components; a run that is empty or
\* all dots gives (0).  tokenize("17.9.3") = (17,9,3), tokenize("16.12") =
\* (16,12,0) and tokenize("17.6.3a") = tokenize("17.6.3").
C10_TokenizeStripsOuterDots ==
    op = "_tokenize_version" =>
        /\ LET s == WithoutOuterDots(LeadingRun(Trimmed(arg)))
           IN  ret = IF s = <<>> THEN <<0>> ELSE Components(s)
        /\ arg = V17_9_3 => ret = <<17, 9, 3>>
        /\ arg = V16_12 => ret = <<16, 12, 0>>
        /\ arg \in {V17_6_3a, V17_6_3} => ret = <<17, 6, 3>>

\* a string with a dot before its first digit and an empty segment inside
\* was tokenized
C10_Witness ==
    /\ op = "_tokenize_version"
    /\ arg = <<".", "1", ".", ".", "1">>
    /\ ret = <<1, 0, 1>>

-----------------------------------------------------------------------------
(* compare_versions on its own                                             *)

\* the longest version string of a compared pair
MaxCompareLen == 3

CompareChars == {"0", "1", ".", "a"}

V16_12_0 == <<"1", "6", ".", "1", "2", ".", "0">>

V17_9 == <<"1", "7", ".", "9">>

CompareInputs ==
    LET drawn == UNION {[1..k -> CompareChars] : k \in 0..MaxCompareLen}
    IN  (drawn \X drawn)
        \cup {<<V16_12, V16_12_0>>, <<V17_9_3, V17_9>>, <<V17_9, V17_9_3>>,
              <<None, <<>>>>, <<<<" ", "1">>, <<"1", " ">>>>,
              <<<<"^2">>, <<"0">>>>, <<V17_6_3a, V17_6_3>>}

InitCompare ==
    /\ cves = <<>>
    /\ outcomes = <<>>
    /\ loaded = <<>>
    /\ before = <<>>
    /\ query = NoQuery
    /\ matched = <<>>
    /\ op = "input"
    /\ arg \in CompareInputs
    /\ ret = <<>>
    /\ frame = NoFrame
    /\ requests = NoRequests
    /\ history = <<<<>>>>

Compare ==
    /\ op = "input"
    /\ ret' = compare_versions(arg[1], arg[2])
    /\ op' = "compare_versions"
    /\ UNCHANGED <<cves, outcomes, loaded, before, query, matched, arg,
                 frame, requests, history>>

NextCompare == Compare

SpecCompare == InitCompare /\ [][NextCompare]_vars

\* the i-th component of t after zero-padding
PaddedAt(t, i) == IF i <= Len(t) THEN t[i] ELSE 0

\* the sign of the lexicographic comparison of the zero-padded tuples
LexSign(ta, tb) ==
    LET n == Max(Len(ta), Len(tb))
        diff == {i \in 1..n : PaddedAt(ta, i) # PaddedAt(tb, i)}
    IN  IF diff = {} THEN 0
        ELSE LET k == CHOOSE i \in diff : \A j \in diff : i <= j
             IN  IF PaddedAt(ta, k) < PaddedAt(tb, k) THEN -1 ELSE 1

\* C11: compare_versions always returns -1, 0 or 1; compare(a,a) = 0 and
\* compare(a,b) = -compare(b,a); the result is the lexicographic comparison
\* of the two token tuples padded with zeros to equal length, so "16.12"
\* equals "16.12.0", "17.9.3" is greater than "17.9", and "" against ""
\* (or an absent string) compares as 0.
C11_CompareTotalAntisymmetricPadded ==
    op = "compare_versions" =>
        /\ ret \in {-1, 0, 1}
        /\ arg[1] = arg[2] => ret = 0
        /\ ret = 0 - compare_versions(arg[2], arg[1])
        /\ ret = LexSign(_tokenize_version(arg[1]), _tokenize_version(arg[2]))
        /\ arg = <<V16_12, V16_12_0>> => ret = 0
        /\ arg = <<V17_9_3, V17_9>> => ret = 1
        /\ arg \in {<<<<>>, <<>>>>, <<None, <<>>>>} => ret = 0

\* a degenerate string was compared with one of three components, and the
\* padding made them equal
C11_Witness ==
    /\ op = "compare_versions"
    /\ arg = <<<<".">>, <<"0", ".", "0">>>>
    /\ ret = 0

-----------------------------------------------------------------------------
(* platform_matches on its own                                             *)

\* the longest platform list of a record
MaxPlatforms == 2

IosXeUpper == <<"I", "O", "S", " ", "X", "E">>

CiscoIosXe == <<"C", "i", "s", "c", "o", " ">> \o IosXeUpper

IosXeSpaced == <<" ", "i", "o", "s", " ", "x", "e", " ">>

IosDashXe == <<"I", "O", "S", "-", "X", "E">>

Isr4451Lower == <<"i", "s", "r", "4", "4", "5", "1">>

\* platform names as profiles and records carry them
PlatformNames ==
    {<<>>, <<" ">>, IosXeUpper, IosXe, IosXeSpaced, CiscoIosXe, IosDashXe,
     Isr4451, Isr4451Lower, Asr1001, Asr9000, Asr9000 \o <<" ">>}
    \cup UNION {[1..k -> {"X", "x"}] : k \in 1..2}

PlatformLists == UNION {[1..k -> PlatformNames] : k \in 0..MaxPlatforms}

PlatformInputs == (PlatformNames \cup {None}) \X PlatformLists

InitPlatform ==
    /\ cves = <<>>
    /\ outcomes = <<>>
    /\ loaded = <<>>
    /\ before = <<>>
    /\ query = NoQuery
    /\ matched = <<>>
    /\ op = "input"
    /\ arg \in PlatformInputs
    /\ ret = <<>>
    /\ frame = NoFrame
    /\ requests = NoRequests
    /\ history = <<<<>>>>

PlatformMatches ==
    /\ op = "input"
    /\ ret' = platform_matches(arg[1], arg[2])
    /\ op' = "platform_matches"
    /\ UNCHANGED <<cves, outcomes, loaded, before, query, matched, arg,
                 frame, requests, history>>

NextPlatform == PlatformMatches

SpecPlatform == InitPlatform /\ [][NextPlatform]_vars

\* p trimmed and lowercased, an absent p being empty
Normalized(p) == IF p = None THEN <<>> ELSE Lower(Trimmed(p))

\* some normalized entry of the list holds "ios xe" somewhere
SomeEntryHoldsIosXe(platforms) ==
    \E i \in 1..Len(platforms) : Contains(Normalized(platforms[i]), IosXe)

\* some normalized entry of the list is "ios xe"
SomeEntryIsIosXe(platforms) ==
    \E i \in 1..Len(platforms) : Normalized(platforms[i]) = IosXe

\* C12 as written: a non-empty query matches whenever it contains "ios xe"
\* or "ios xe" is part of some record-platform entry.
C12_FamilyInsideEntryIsWildcard ==
    (/\ op = "platform_matches"
     /\ Normalized(arg[1]) # <<>>
     /\ Contains(Normalized(arg[1]), IosXe) \/ SomeEntryHoldsIosXe(arg[2]))
        => ret = TRUE

\* C12, amended: a non-empty query matches unconditionally when the
\* normalized query contains "ios xe" or when some normalized
\* record-platform entry is exactly "ios xe"; an entry that only holds
\* "ios xe" inside a longer name is no wildcard.  platform_matches("IOS XE",
\* ["ISR4451-X"]) is true, platform_matches("ASR9000", ["Cisco IOS XE"]) is
\* false.
C12_FamilyQueryOrExactEntryIsWildcard ==
    op = "platform_matches" =>
        /\ (/\ Normalized(arg[1]) # <<>>
            /\ Contains(Normalized(arg[1]), IosXe) \/ SomeEntryIsIosXe(arg[2]))
               => ret = TRUE
        /\ arg = <<IosXeUpper, <<Isr4451>>>> => ret = TRUE
        /\ arg = <<Asr9000, <<CiscoIosXe>>>> => ret = FALSE

\* a query that names no family matched a record only because one of its
\* entries is the family name
C12_Witness ==
    /\ op = "platform_matches"
    /\ arg = <<Asr9000, <<Isr4451, IosXeSpaced>>>>
    /\ ret = TRUE

\* the bidirectional substring rule over the non-empty normalized entries
SomeEntryOverlaps(q, platforms) ==
    \E i \in 1..Len(platforms) :
        LET e == Normalized(platforms[i])
        IN  /\ e # <<>>
            /\ e = q \/ Contains(q, e) \/ Contains(e, q)

\* C13: when the "ios xe" wildcard does not apply, platform_matches is true
\* iff some non-empty normalized record-platform entry is equal to, a
\* substring of, or a superstring of the normalized query; an empty or
\* whitespace-only query never matches and an empty entry never produces a
\* match.  ("ISR4451-X", ["ISR4451-X","ASR1001-X"]) is true and ("ASR9000",
\* ["ISR4451-X"]) is false.
C13_BidirectionalSubstringOtherwise ==
    op = "platform_matches" =>
        LET q == Normalized(arg[1])
        IN  /\ q = <<>> => ret = FALSE
            /\ (/\ q # <<>>
                /\ ~Contains(q, IosXe)
                /\ ~SomeEntryIsIosXe(arg[2]))
                   => ret = SomeEntryOverlaps(q, arg[2])
            /\ (/\ ~Contains(q, IosXe)
                /\ \A i \in 1..Len(arg[2]) : Normalized(arg[2][i]) = <<>>)
                   => ret = FALSE
            /\ arg = <<Isr4451, <<Isr4451, Asr1001>>>> => ret = TRUE
            /\ arg = <<Asr9000, <<Isr4451>>>> => ret = FALSE

\* a query matched an entry that is a proper part of it, next to an empty
\* entry that matched nothing
C13_Witness ==
    /\ op = "platform_matches"
    /\ arg = <<Isr4451, <<<<" ">>, Isr4451Lower>>>>
    /\ ret = TRUE

-----------------------------------------------------------------------------
(* summary and recommended_upgrade on their own                            *)

\* the longest matched list handed to summary and recommended_upgrade
MaxMatched == 3

V17_10_1 == <<"1", "7", ".", "1", "0", ".", "1">>

V17_7_1_0 == V17_7_1 \o <<".", "0">>

SevInfo == <<"I", "n", "f", "o">>

\* a record as match returns it, with the fields the two operations read
Fixed(cve_id, severity, fixed_in) ==
    [CVEEntry(cve_id, cve_id, severity, <<Isr4451>>, V17_3_0, V17_7_0, <<>>)
        EXCEPT !.fixed_in = fixed_in]

Cve3 == <<"C", "V", "E", "-", "3">>

MatchedRecords ==
    {Fixed(Cve1, SevCritical, V17_10_1),
     Fixed(Cve1, SevLow, V17_3_0),
     Fixed(Cve1, <<>>, V16_12),
     Fixed(Cve10, <<"H", "I", "G", "H">>, V17_7_1_0),
     Fixed(Cve10, SevMedium, V17_3_0),
     Fixed(Cve10, <<"C", "r", "i", "t", "i", "c", "a", "l">>, <<>>),
     Fixed(Cve2, SevHigh, V17_7_1),
     Fixed(Cve2, SevCritical, None),
     Fixed(Cve2, SevInfo, V16_12),
     Fixed(Cve3, SevHigh, <<>>),
     Fixed(Cve3, SevMedium, None),
     Fixed(Cve3, <<"C", "R", "I", "T", "I", "C", "A", "L">>, V17_7_1)}

\* the lists match can return: distinct IDs, in the order of its sort
MatchedLists ==
    {list \in UNION {[1..k -> MatchedRecords] : k \in 0..MaxMatched} :
        /\ \A i, j \in 1..Len(list) : i # j => list[i].cve_id # list[j].cve_id
        /\ list = SortByKey(list)}

InitSummary ==
    /\ cves = <<>>
    /\ outcomes = <<>>
    /\ loaded = <<>>
    /\ before = <<>>
    /\ query = NoQuery
    /\ matched = <<>>
    /\ op = "input"
    /\ arg \in MatchedLists
    /\ ret = <<>>
    /\ frame = NoFrame
    /\ requests = NoRequests
    /\ history = <<<<>>>>

Summary ==
    /\ op = "input"
    /\ ret' = summary(arg)
    /\ op' = "summary"
    /\ UNCHANGED <<cves, outcomes, loaded, before, query, matched, arg,
                 frame, requests, history>>

RecommendedUpgrade ==
    /\ op = "input"
    /\ ret' = recommended_upgrade(arg)
    /\ op' = "recommended_upgrade"
    /\ UNCHANGED <<cves, outcomes, loaded, before, query, matched, arg,
                 frame, requests, history>>

NextSummary == Summary \/ RecommendedUpgrade

SpecSummary == InitSummary /\ [][NextSummary]_vars

\* the number of records of list whose severity is sev in some casing
CountOf(list, sev) ==
    Cardinality({i \in 1..Len(list) : Lower(list[i].severity) = sev})

FourLevels == {SevCritical, SevHigh, SevMedium, SevLow}

\* C14: summary returns a mapping with exactly the keys critical, high,
\* medium and low, each holding the number of matched records of that
\* severity compared case-insensitively; records of any other severity are
\* not counted and add no key, so the counts sum to the number of records
\* with a recognized severity.
C14_SummaryCountsFourLevels ==
    op = "summary" =>
        /\ DOMAIN ret = FourLevels
        /\ \A sev \in FourLevels : ret[sev] = CountOf(arg, sev)
        /\ ret[SevCritical] + ret[SevHigh] + ret[SevMedium] + ret[SevLow]
               = Cardinality({i \in 1..Len(arg) :
                                 Lower(arg[i].severity) \in FourLevels})

\* records written HIGH and high were counted together, and a record of
\* another severity was left out
C14_Witness ==
    /\ op = "summary"
    /\ arg = <<Fixed(Cve10, <<"H", "I", "G", "H">>, V17_7_1_0),
               Fixed(Cve2, SevHigh, V17_7_1),
               Fixed(Cve1, <<>>, V16_12)>>
    /\ ret[SevHigh] = 2
    /\ ret[SevCritical] + ret[SevMedium] + ret[SevLow] = 0

\* the fixed-in versions of the critical and high records that carry one
FixCandidates(list) ==
    {list[i].fixed_in : i \in {j \in 1..Len(list) :
        /\ Lower(list[j].severity) \in {SevCritical, SevHigh}
        /\ list[j].fixed_in \notin {None, <<>>}}}

\* C15: recommended_upgrade returns the fixed-in version that is the minimum
\* under compare_versions among the matched records of severity critical or
\* high that carry a non-empty fixed-in version, and absent when there is
\* none; records of any other severity never influence the result.  For
\* {high, 17.7.1} and {critical, 17.10.1} it returns 17.7.1.
C15_RecommendedUpgradeIsMinimum ==
    op = "recommended_upgrade" =>
        /\ FixCandidates(arg) = {} <=> ret = None
        /\ FixCandidates(arg) # {} =>
              /\ ret \in FixCandidates(arg)
              /\ \A v \in FixCandidates(arg) : compare_versions(ret, v) <= 0
        /\ arg = <<Fixed(Cve1, SevCritical, V17_10_1), Fixed(Cve2, SevHigh, V17_7_1)>>
              => ret = V17_7_1

\* the second of two candidates was the older version, and a medium record
\* with a still older fix followed them
C15_Witness ==
    /\ op = "recommended_upgrade"
    /\ arg = <<Fixed(Cve1, SevCritical, V17_10_1),
               Fixed(Cve2, SevHigh, V17_7_1),
               Fixed(Cve10, SevMedium, V17_3_0)>>
    /\ ret = V17_7_1

-----------------------------------------------------------------------------
(* _calculate_cve_breakdown on its own                                     *)

\* the longest tag list of a scored record
MaxTags == 2

Kev == <<"k", "e", "v">>

ExploitedTitleCase == <<"E", "x", "p", "l", "o", "i", "t", "e", "d", "-", "I", "n", "-", "W", "i", "l", "d">>

TagLists ==
    UNION {[1..k -> {ExploitedInWild, Kev, ExploitedTitleCase}] : k \in 0..MaxTags}

P2025_11_02 == <<"2", "0", "2", "5", "-", "1", "1", "-", "0", "2">>

P2025_11_02T == <<"2", "0", "2", "5", "-", "1", "1", "-", "0", "2", "T", "2", "3", ":", "5", "9", ":", "5", "9", ".", "0", "0", "0">>

P2025_11_2 == <<"2", "0", "2", "5", "-", "1", "1", "-", "2">>

P2024_01_01 == <<"2", "0", "2", "4", "-", "0", "1", "-", "0", "1">>

P2025_02_29 == <<"2", "0", "2", "5", "-", "0", "2", "-", "2", "9">>

P2025_11_02t == <<"2", "0", "2", "5", "-", "1", "1", "-", "0", "2", "t", "0", "0", ":", "0", "0">>

PSlashes == <<"0", "2", "/", "1", "1", "/", "2", "0", "2", "5">>

P2027_01_01 == <<"2", "0", "2", "7", "-", "0", "1", "-", "0", "1">>

PublishedStrings ==
    {None, <<>>, P2025_11_02, P2025_11_02T, P2025_11_2, P2024_01_01,
     P2025_02_29, P2025_11_02t, PSlashes, P2027_01_01}

\* the days on which datetime.now() falls
Todays ==
    {ToOrdinal(2026, 11, 2), ToOrdinal(2026, 11, 3),
     ToOrdinal(2024, 12, 31), ToOrdinal(2025, 1, 1)}

\* a record with the fields the score reads
Scored(cve_id, severity, tags, fixed_in, published) ==
    [CVEEntry(cve_id, cve_id, severity, <<Isr4451>>, V17_3_0, V17_7_0, <<>>)
        EXCEPT !.tags = tags, !.fixed_in = fixed_in, !.published = published]

BreakdownInputs ==
    {<<Scored(Cve1, severity, tags, fixed_in, published), today>> :
        severity \in {SevCritical, <<"H", "i", "g", "h">>, SevMedium, SevLow,
                      SevInfo, <<>>},
        tags \in TagLists,
        fixed_in \in {None, <<>>, V17_7_1},
        published \in PublishedStrings,
        today \in Todays}

InitBreakdown ==
    /\ cves = <<>>
    /\ outcomes = <<>>
    /\ loaded = <<>>
    /\ before = <<>>
    /\ query = NoQuery
    /\ matched = <<>>
    /\ op = "input"
    /\ arg \in BreakdownInputs
    /\ ret = <<>>
    /\ frame = NoFrame
    /\ requests = NoRequests
    /\ history = <<<<>>>>

Breakdown ==
    /\ op = "input"
    /\ ret' = _calculate_cve_breakdown(arg[1], arg[2])
    /\ op' = "_calculate_cve_breakdown"
    /\ UNCHANGED <<cves, outcomes, loaded, before, query, matched, arg,
                 frame, requests, history>>

NextBreakdown == Breakdown

SpecBreakdown == InitBreakdown /\ [][NextBreakdown]_vars

\* the base penalty of a severity, in whole points
BasePoints(severity) ==
    LET sev == Lower(severity)
    IN  IF sev = SevCritical THEN 25
        ELSE IF sev = SevHigh THEN 15
        ELSE IF sev = SevMedium THEN 8
        ELSE IF sev = SevLow THEN 3
        ELSE 8

\* the date part of the publish date is a date that lies more than 365
\* days before today
PublishedLongAgo(published, today) ==
    /\ published \notin {None, <<>>}
    /\ ~strptime(BeforeT(published)).raised
    /\ today - strptime(BeforeT(published)).ordinal > 365

\* C16: the breakdown of a record has base penalty 25/15/8/3 for
\* critical/high/medium/low and 8 for any other severity, and its final
\* penalty is the base times the product of the triggered modifiers, each
\* triggered on its own: exploited-in-wild (x1.5) iff the tag list contains
\* exactly that tag, patch-available (x0.7) iff fixed-in is non-empty, aged
\* (x1.2) iff the date part of the publish date parses as YYYY-MM-DD and is
\* more than 365 days old; an absent or unparseable date applies no
\* modifier.  Penalties are in hundredths.
C16_BreakdownIsBaseTimesTriggeredModifiers ==
    op = "_calculate_cve_breakdown" =>
        LET cve == arg[1]
            exploited == \E i \in 1..Len(cve.tags) : cve.tags[i] = ExploitedInWild
            patched == cve.fixed_in \notin {None, <<>>}
            aged == PublishedLongAgo(cve.published, arg[2])
            Applied(name) == \E i \in 1..Len(ret.modifiers_applied) :
                                 ret.modifiers_applied[i] = name
        IN  /\ ret.base_penalty = 100 * BasePoints(cve.severity)
            /\ ret.final_penalty * 1000 =
                   ret.base_penalty
                       * (IF exploited THEN 15 ELSE 10)
                       * (IF patched THEN 7 ELSE 10)
                       * (IF aged THEN 12 ELSE 10)
            /\ Applied(ExploitedInWild) <=> exploited
            /\ Applied(PatchAvailable) <=> patched
            /\ Applied(Aged) <=> aged

\* a critical record with the tag next to another tag, a fix and a publish
\* date 366 days back carries all three modifiers: 25 x 1.26 = 31.5
C16_Witness ==
    /\ op = "_calculate_cve_breakdown"
    /\ arg = <<Scored(Cve1, SevCritical, <<Kev, ExploitedInWild>>, V17_7_1,
                      P2025_11_02T),
               ToOrdinal(2026, 11, 3)>>
    /\ ret.modifiers_applied = <<ExploitedInWild, PatchAvailable, Aged>>
    /\ ret.final_penalty = 3150

-----------------------------------------------------------------------------
(* calculate_all_security_scores                                           *)

\* the most profile files of the directory
MaxProfiles == 2

Cve4 == <<"C", "V", "E", "-", "4">>

Cve5 == <<"C", "V", "E", "-", "5">>

Cve6 == <<"C", "V", "E", "-", "6">>

Cve7 == <<"C", "V", "E", "-", "7">>

\* a critical record of the ISR tagged exploited-in-wild: penalty 37.5
Exploited(cve_id) == Scored(cve_id, SevCritical, <<ExploitedInWild>>, None, None)

\* the curated dataset the scores are computed from: five exploited
\* critical records, a plain critical one (penalty 25) for two platforms
\* and a patched high one (penalty 10.5) for the ASR
ScoreFiles ==
    <<Exploited(Cve1), Exploited(Cve2), Exploited(Cve3), Exploited(Cve4),
      Exploited(Cve5),
      [Scored(Cve6, <<"C", "r", "i", "t", "i", "c", "a", "l">>, <<>>, None, None)
          EXCEPT !.platforms = <<Isr4451, Asr1001>>],
      [Scored(Cve7, SevHigh, <<>>, V17_7_1, None)
          EXCEPT !.platforms = <<Asr1001>>]>>

\* the members of list at the positions in S, in their order
RECURSIVE Picked(_, _)
Picked(list, S) ==
    IF list = <<>> THEN <<>>
    ELSE LET rest == Picked(Tail(list), {i - 1 : i \in S \ {1}})
         IN  IF 1 \in S THEN <<Head(list)>> \o rest ELSE rest

\* the datasets: the first k exploited records, with or without each of the
\* other two
ScoreDatasets ==
    {Picked(ScoreFiles, (1..k) \cup others) : k \in 0..5, others \in SUBSET {6, 7}}

\* what the providers of CVEEngine() do: the local provider alone, which
\* raises or returns the records of the files it finds
ScoreOutcomes ==
    {<<Raised>>} \cup
    {<<Returned([i \in 1..Len(files) |-> _ensure_source(files[i])])>> :
        files \in ScoreDatasets}

ProfileNames == <<<<"a">>, <<"b">>, <<"c">>, <<"d">>>>

\* what a listed profile file holds: found is false when the file is gone
\* by the time it is loaded; platform and version are data.get(...)
ProfileFile(found, platform, version) ==
    [listed |-> TRUE, found |-> found, platform |-> platform, version |-> version]

NoFile == [listed |-> FALSE, found |-> FALSE, platform |-> None, version |-> None]

ProfileFiles ==
    {ProfileFile(TRUE, Isr4451, V17_5_0),
     ProfileFile(TRUE, Asr1001, V17_5_0),
     ProfileFile(TRUE, None, V17_5_0),
     ProfileFile(TRUE, Isr4451, <<>>),
     ProfileFile(TRUE, <<" ">>, V17_5_0),
     ProfileFile(FALSE, None, None)}

\* the listed files of a directory, under their names, in sorted order
RECURSIVE Listing(_, _)
Listing(files, i) ==
    IF i > Len(files) THEN <<>>
    ELSE IF files[i].listed
         THEN <<[name |-> ProfileNames[i], found |-> files[i].found,
                 platform |-> files[i].platform, version |-> files[i].version]>>
              \o Listing(files, i + 1)
    ELSE Listing(files, i + 1)

Directories ==
    {Listing(files, 1) : files \in [1..MaxProfiles -> ProfileFiles \cup {NoFile}]}

ScoreDay == ToOrdinal(2026, 11, 3)

ScoreInputs == ScoreOutcomes \X Directories \X {ScoreDay}

InitScores ==
    /\ cves = <<>>
    /\ outcomes = <<>>
    /\ loaded = <<>>
    /\ before = <<>>
    /\ query = NoQuery
    /\ matched = <<>>
    /\ op = "input"
    /\ arg \in ScoreInputs
    /\ ret = <<>>
    /\ frame = NoFrame
    /\ requests = NoRequests
    /\ history = <<<<>>>>

CalculateAllSecurityScores ==
    /\ op = "input"
    /\ ret' = calculate_all_security_scores(arg[1], arg[2], arg[3])
    /\ op' = "calculate_all_security_scores"
    /\ UNCHANGED <<cves, outcomes, loaded, before, query, matched, arg,
                 frame, requests, history>>

NextScores == CalculateAllSecurityScores

SpecScores == InitScores /\ [][NextScores]_vars

\* the records of the dataset handed to the engine
DatasetOf(outs) == IF outs[1].raised THEN <<>> ELSE outs[1].entries

\* the result of the profile called name, when there is one
ResultsFor(name) == {i \in 1..Len(ret.results) : ret.results[i].profile_name = name}

HasDeviceInfo(r) == r.platform \notin {None, <<>>} /\ r.version \notin {None, <<>>}

\* n hundredths rounded to the nearest integer, ties to the even one
IsRounded(r, n) ==
    LET away == IF 100 * r >= n THEN 100 * r - n ELSE n - 100 * r
    IN  away < 50 \/ (away = 50 /\ r % 2 = 0)

\* C17: for every profile that has platform and version the score is
\* max(0, round(100 - sum of the final penalties of its matched records)),
\* an integer in 0..100; five critical records tagged exploited-in-wild
\* (37.5 each, 187.5 in total) give score 0 with label Critical.
C17_ScoreIsFlooredRoundedRemainder ==
    op = "calculate_all_security_scores" =>
        \A i \in 1..Len(ret.results) :
            LET r == ret.results[i]
                dataset == DatasetOf(arg[1])
                hits == {j \in 1..Len(dataset) :
                            Applies(dataset[j], r.platform, r.version)}
                penalties == Total([k \in 1..Len(r.cve_breakdown) |->
                                       r.cve_breakdown[k].final_penalty])
            IN  HasDeviceInfo(r) =>
                  /\ {r.cve_breakdown[k].cve_id : k \in 1..Len(r.cve_breakdown)}
                         = {dataset[j].cve_id : j \in hits}
                  /\ Len(r.cve_breakdown) = Cardinality(hits)
                  /\ r.cve_count = Cardinality(hits)
                  /\ r.score \in 0..100
                  /\ \E round \in -200..100 :
                        /\ IsRounded(round, 100 * 100 - penalties)
                        /\ r.score = IF round < 0 THEN 0 ELSE round
                  /\ (Cardinality(hits) = 5 /\ penalties = 18750)
                        => r.score = 0 /\ r.label = LabelCritical

\* a profile matched the five exploited critical records and nothing else:
\* 187.5 points of penalty, score 0
C17_Witness ==
    /\ op = "calculate_all_security_scores"
    /\ Len(ret.results) = 1
    /\ ret.results[1].cve_count = 5
    /\ ret.results[1].total_final_penalty = 18750
    /\ ret.results[1].score = 0
    /\ ret.results[1].label = LabelCritical

\* the label the buckets give a score
BucketLabel(score) ==
    IF score \in 90..100 THEN LabelExcellent
    ELSE IF score \in 70..89 THEN LabelGood
    ELSE IF score \in 50..69 THEN LabelFair
    ELSE IF score \in 25..49 THEN LabelPoor
    ELSE LabelCritical

\* C18: the label of a scored profile is a function of its score alone:
\* Excellent for 90 and above, Good for 70..89, Fair for 50..69, Poor for
\* 25..49, Critical for 0..24; the label is absent exactly when the score is.
C18_LabelIsBucketOfScore ==
    op = "calculate_all_security_scores" =>
        \A i \in 1..Len(ret.results) :
            LET r == ret.results[i]
            IN  /\ r.label = None <=> r.score = NoScore
                /\ r.score # NoScore =>
                      /\ r.score \in 0..100
                      /\ r.label = BucketLabel(r.score)

\* one profile scored exactly 90 and is Excellent, another exactly 25 and is
\* Poor
C18_Witness ==
    /\ op = "calculate_all_security_scores"
    /\ \E i, j \in 1..Len(ret.results) :
          /\ ret.results[i].score = 90
          /\ ret.results[i].label = LabelExcellent
          /\ ret.results[j].score = 25
          /\ ret.results[j].label = LabelPoor

\* the matched set of result r is one critical record with no tags, no
\* fixed-in version and no publish date
MatchedOnePlainCritical(r) ==
    LET dataset == DatasetOf(arg[1])
        hits == {j \in 1..Len(dataset) : Applies(dataset[j], r.platform, r.version)}
    IN  /\ HasDeviceInfo(r)
        /\ Cardinality(hits) = 1
        /\ \A j \in hits :
              /\ Lower(dataset[j].severity) = SevCritical
              /\ dataset[j].tags = <<>>
              /\ dataset[j].fixed_in = None
              /\ dataset[j].published = None

\* C19 as written: a profile whose matched set is a single critical record
\* with no tags, no fixed-in version and no publish date gets final penalty
\* 25, score 75 and label Fair.
C19_PlainCriticalScores75Fair ==
    op = "calculate_all_security_scores" =>
        \A i \in 1..Len(ret.results) :
            MatchedOnePlainCritical(ret.results[i]) =>
                /\ ret.results[i].total_final_penalty = 2500
                /\ ret.results[i].score = 75
                /\ ret.results[i].label = LabelFair

\* C19, amended: a profile whose matched set is a single critical record
\* with no tags, no fixed-in version and no publish date gets final penalty
\* 25, score 75 and label Good (75 lies in 70..89).
C19_PlainCriticalScores75Good ==
    op = "calculate_all_security_scores" =>
        \A i \in 1..Len(ret.results) :
            MatchedOnePlainCritical(ret.results[i]) =>
                /\ ret.results[i].cve_breakdown[1].final_penalty = 2500
                /\ ret.results[i].cve_breakdown[1].modifiers_applied = <<>>
                /\ ret.results[i].total_final_penalty = 2500
                /\ ret.results[i].score = 75
                /\ ret.results[i].label = LabelGood

\* the only profile matched the plain critical record alone
C19_Witness ==
    /\ op = "calculate_all_security_scores"
    /\ Len(ret.results) = 1
    /\ MatchedOnePlainCritical(ret.results[1])
    /\ ret.results[1].cve_breakdown[1].cve_id = Cve6
    /\ ret.results[1].score = 75

IsFound(p) == p.found

LacksField(p) == p.platform \in {None, <<>>} \/ p.version \in {None, <<>>}

\* C20: a profile lacking platform or version is never matched or scored:
\* its score and label are absent, its CVE count is 0 and it is counted as
\* unknown; the average (in tenths), the minimum and the maximum are
\* computed over exactly the profiles with a score, satisfy minimum <=
\* average <= maximum, and are all absent iff no profile has a score.
C20_UnknownProfilesStayOutOfAggregates ==
    op = "calculate_all_security_scores" =>
        LET loaded_profiles == SelectSeq(arg[2], IsFound)
            results == ret.results
            n == Len(results)
            numeric == {i \in 1..n : results[i].score # NoScore}
            sum == Total([i \in 1..n |-> IF i \in numeric THEN results[i].score ELSE 0])
            count == Cardinality(numeric)
            off == 10 * sum - ret.average_score * count
        IN  /\ n = Len(loaded_profiles)
            /\ \A i \in 1..n :
                  /\ results[i].profile_name = loaded_profiles[i].name
                  /\ LacksField(loaded_profiles[i]) <=> results[i].score = NoScore
                  /\ LacksField(loaded_profiles[i]) =>
                        /\ results[i].label = None
                        /\ results[i].cve_count = 0
                        /\ results[i].cve_breakdown = <<>>
            /\ ret.summary.unknown = n - count
            /\ numeric = {} <=> ret.average_score = NoScore
            /\ numeric = {} <=> ret.lowest_score = NoScore
            /\ numeric = {} <=> ret.highest_score = NoScore
            /\ numeric # {} =>
                  /\ ret.lowest_score \in {results[i].score : i \in numeric}
                  /\ ret.highest_score \in {results[i].score : i \in numeric}
                  /\ \A i \in numeric : ret.lowest_score <= results[i].score
                  /\ \A i \in numeric : results[i].score <= ret.highest_score
                  /\ 2 * off <= count /\ 2 * off >= 0 - count
                  /\ 10 * ret.lowest_score <= ret.average_score
                  /\ ret.average_score <= 10 * ret.highest_score

\* a profile without a platform stood next to one that scored 75: it is
\* unknown, and the average is 75.0, not 37.5
C20_Witness ==
    /\ op = "calculate_all_security_scores"
    /\ Len(ret.results) = 2
    /\ ret.results[1].platform = None
    /\ ret.results[1].score = NoScore
    /\ ret.results[2].score = 75
    /\ ret.summary.unknown = 1
    /\ ret.average_score = 750
    /\ ret.lowest_score = 75
    /\ ret.highest_score = 75

-----------------------------------------------------------------------------
(* check_all_vulnerabilities and calculate_all_security_scores over one    *)
(* profile directory                                                       *)

\* a record of the ISR with the given CVSS score, in tenths
Rated(cve_id, severity, cvss_score) ==
    [Scored(cve_id, severity, <<>>, None, None) EXCEPT !.cvss_score = cvss_score]

\* the CVSS scores of the datasets that hold one record: both sides of
\* every threshold of _determine_status, and no score at all
RatedAlone ==
    {Rated(Cve1, SevCritical, NoScore), Rated(Cve1, SevLow, 0),
     Rated(Cve1, SevLow, 1), Rated(Cve1, SevLow, 39),
     Rated(Cve1, SevMedium, 40), Rated(Cve1, SevMedium, 69),
     Rated(Cve1, SevHigh, 70), Rated(Cve1, SevHigh, 89),
     Rated(Cve1, SevCritical, 90), Rated(Cve1, SevCritical, 100)}

\* the datasets that hold several records; match returns them by severity
\* and ID, so the highest score comes first, last or in the middle
RatedTogether ==
    {<<Rated(Cve1, SevCritical, NoScore), Rated(Cve2, SevLow, 98)>>,
     <<Rated(Cve1, SevCritical, 40), Rated(Cve2, SevLow, 75)>>,
     <<Rated(Cve1, SevHigh, 75), Rated(Cve2, SevHigh, 40)>>,
     <<Rated(Cve1, SevCritical, NoScore), Rated(Cve2, SevCritical, NoScore)>>,
     <<Rated(Cve1, SevMedium, 0), Rated(Cve2, SevCritical, NoScore)>>,
     <<Rated(Cve1, SevCritical, 35), Rated(Cve2, SevCritical, 92),
       Rated(Cve3, SevCritical, 90)>>,
     <<Rated(Cve1, SevCritical, 35), Rated(Cve2, SevCritical, 92),
       Rated(Cve3, SevCritical, 90), Rated(Cve4, SevCritical, NoScore)>>}

RatedDatasets == {<<>>} \cup {<<r>> : r \in RatedAlone} \cup RatedTogether

\* what the providers of CVEEngine() do: the local provider alone, which
\* raises or returns the records of the files it finds
RatedOutcomes ==
    {<<Raised>>} \cup
    {<<Returned([i \in 1..Len(files) |-> _ensure_source(files[i])])>> :
        files \in RatedDatasets}

ProfilesInputs == RatedOutcomes \X Directories \X {ScoreDay}

InitProfiles ==
    /\ cves = <<>>
    /\ outcomes = <<>>
    /\ loaded = <<>>
    /\ before = <<>>
    /\ query = NoQuery
    /\ matched = <<>>
    /\ op = "input"
    /\ arg \in ProfilesInputs
    /\ ret = <<>>
    /\ frame = NoFrame
    /\ requests = NoRequests
    /\ history = <<<<>>>>

CheckAllVulnerabilities ==
    /\ op = "input"
    /\ ret' = check_all_vulnerabilities(arg[1], arg[2])
    /\ op' = "check_all_vulnerabilities"
    /\ UNCHANGED <<cves, outcomes, loaded, before, query, matched, arg,
                 frame, requests, history>>

NextProfiles == CheckAllVulnerabilities \/ CalculateAllSecurityScores

SpecProfiles == InitProfiles /\ [][NextProfiles]_vars

\* the number of results whose field has the value
HowMany(results, field, value) ==
    Cardinality({i \in 1..Len(results) : results[i][field] = value})

\* C21: in the response of either aggregation, profiles_checked is the
\* number of per-profile results, the six bucket counters add up to it, and
\* each counter is the number of results that carry its status or label;
\* unknown counts the results of status unknown, those without a score.
C21_BucketCountsPartitionResults ==
    /\ op = "check_all_vulnerabilities" =>
          LET results == ret.results
              c == ret.summary
          IN  /\ ret.profiles_checked = Len(results)
              /\ c.critical + c.high + c.medium + c.low + c.clean + c.unknown
                    = ret.profiles_checked
              /\ c.critical = HowMany(results, "status", SevCritical)
              /\ c.high = HowMany(results, "status", SevHigh)
              /\ c.medium = HowMany(results, "status", SevMedium)
              /\ c.low = HowMany(results, "status", SevLow)
              /\ c.clean = HowMany(results, "status", StatusClean)
              /\ c.unknown = HowMany(results, "status", StatusUnknown)
    /\ op = "calculate_all_security_scores" =>
          LET results == ret.results
              c == ret.summary
          IN  /\ ret.profiles_checked = Len(results)
              /\ c.excellent + c.good + c.fair + c.poor + c.critical + c.unknown
                    = ret.profiles_checked
              /\ c.excellent = HowMany(results, "label", LabelExcellent)
              /\ c.good = HowMany(results, "label", LabelGood)
              /\ c.fair = HowMany(results, "label", LabelFair)
              /\ c.poor = HowMany(results, "label", LabelPoor)
              /\ c.critical = HowMany(results, "label", LabelCritical)
              /\ c.unknown = HowMany(results, "score", NoScore)

\* two profiles were checked: one without a version, counted as unknown,
\* and one whose highest score is 9.2, counted as critical
C21_Witness ==
    /\ op = "check_all_vulnerabilities"
    /\ ret.profiles_checked = 2
    /\ ret.results[1].status = StatusUnknown
    /\ ret.results[2].status = SevCritical
    /\ ret.summary.unknown = 1
    /\ ret.summary.critical = 1

\* the records of the dataset that apply to a profile
HitsOf(outs, p) ==
    {i \in 1..Len(DatasetOf(outs)) :
        Applies(DatasetOf(outs)[i], p.platform, p.version)}

\* the highest numeric score among these records, NoScore when none has one
TopScore(outs, hits) ==
    LET numeric == {DatasetOf(outs)[i].cvss_score : i \in hits} \ {NoScore}
    IN  IF numeric = {} THEN NoScore
        ELSE CHOOSE top \in numeric : \A n \in numeric : n <= top

\* the status the thresholds give a highest score
StatusOfTop(top) ==
    IF top \in 90..100 THEN SevCritical
    ELSE IF top \in 70..89 THEN SevHigh
    ELSE IF top \in 40..69 THEN SevMedium
    ELSE IF top \in 1..39 THEN SevLow
    ELSE StatusClean

\* C22: a profile with platform and version has the status of the highest
\* numeric CVSS score among the records that match it: critical from 9.0,
\* high from 7.0, medium from 4.0, low above 0, and clean when that score is
\* 0 or no matched record has a numeric score; a profile without platform
\* or version has status unknown.
C22_StatusIsBucketOfHighestScore ==
    op = "check_all_vulnerabilities" =>
        LET loaded_profiles == SelectSeq(arg[2], IsFound)
            results == ret.results
        IN  /\ Len(results) = Len(loaded_profiles)
            /\ \A i \in 1..Len(results) :
                  LET p == loaded_profiles[i]
                      hits == HitsOf(arg[1], p)
                  IN  /\ results[i].profile_name = p.name
                      /\ LacksField(p) => results[i].status = StatusUnknown
                      /\ ~LacksField(p) =>
                            /\ results[i].cve_count = Cardinality(hits)
                            /\ results[i].max_cvss = TopScore(arg[1], hits)
                            /\ results[i].status = StatusOfTop(TopScore(arg[1], hits))

\* a profile matched two records, neither with a numeric score, and is
\* clean; another matched nothing and is clean as well
C22_Witness ==
    /\ op = "check_all_vulnerabilities"
    /\ Len(ret.results) = 2
    /\ ret.results[1].cve_count = 2
    /\ ret.results[1].max_cvss = NoScore
    /\ ret.results[1].status = StatusClean
    /\ ret.results[2].cve_count = 0
    /\ ret.results[2].status = StatusClean

-----------------------------------------------------------------------------
(* The construction of an engine                                           *)

\* the spellings of an environment switch that turn it on
EnvOn == {<<"1">>, <<" ", "T", "R", "U", "E", " ">>, <<"y", "e", "s">>, <<"O", "n">>}

\* the values that leave it off; None is the variable not being set
EnvOff == {None, <<>>, <<"0">>, <<"f", "a", "l", "s", "e">>, <<"o", "f", "f">>}

EnvNames == {"CVE_NVD_ENRICH", "CVE_CISCO_PROVIDER", "CVE_TENABLE_PROVIDER"}

Environments == [EnvNames -> EnvOn \cup EnvOff]

\* the config argument: None, or a CVEEngineConfig with any flags
Configs ==
    {[CVEEngineConfig EXCEPT !.passed = FALSE]} \cup
    [ passed : {TRUE}, enable_nvd_enrichment : BOOLEAN,
      enable_cisco_provider : BOOLEAN, enable_tenable_provider : BOOLEAN ]

NoProviders == [passed |-> FALSE, list |-> <<>>]

\* the providers argument when it is passed: an empty list, an injected
\* provider
ProviderArgs == {[passed |-> TRUE, list |-> l] : l \in {<<>>, <<ExtName>>}}

InitInputs ==
    {[config |-> c, providers |-> NoProviders, env |-> e] :
        c \in Configs, e \in Environments}
    \cup
    {[config |-> c, providers |-> p, env |-> e] :
        c \in Configs, p \in ProviderArgs,
        e \in {[n \in EnvNames |-> None], [n \in EnvNames |-> <<"1">>]}}

InitConstruct ==
    /\ cves = <<>>
    /\ outcomes = <<>>
    /\ loaded = <<>>
    /\ before = <<>>
    /\ query = NoQuery
    /\ matched = <<>>
    /\ op = "input"
    /\ arg \in InitInputs
    /\ ret = <<>>
    /\ frame = NoFrame
    /\ requests = NoRequests
    /\ history = <<<<>>>>

Construct ==
    /\ op = "input"
    /\ ret' = __init__(arg.config, arg.providers, arg.env)
    /\ op' = "__init__"
    /\ UNCHANGED <<cves, outcomes, loaded, before, query, matched, arg,
                 frame, requests, history>>

NextConstruct == Construct

SpecConstruct == InitConstruct /\ [][NextConstruct]_vars

\* the flag of the config the engine was constructed with
FlagSet(flag) == arg.config.passed /\ arg.config[flag]

\* C23: in the default provider list each optional provider is present iff
\* its own configuration flag is set or, the flag not being set, its own
\* environment switch is on, whatever the flags and switches of the other
\* two; the local dataset provider comes first, and with no flag set and
\* no switch on it is the only provider.
C23_EachProviderHasItsOwnSwitch ==
    (op = "__init__" /\ ~arg.providers.passed) =>
        LET Has(name) == \E i \in 1..Len(ret.providers) : ret.providers[i] = name
            On(flag, switch) ==
                IF FlagSet(flag) THEN TRUE ELSE arg.env[switch] \in EnvOn
        IN  /\ ret.providers[1] = LocalJsonName
            /\ \A i, j \in 1..Len(ret.providers) :
                  i # j => ret.providers[i] # ret.providers[j]
            /\ \A i \in 1..Len(ret.providers) :
                  ret.providers[i] \in {LocalJsonName, NvdName, CiscoName, TenableName}
            /\ Has(NvdName) <=> On("enable_nvd_enrichment", "CVE_NVD_ENRICH")
            /\ Has(CiscoName) <=> On("enable_cisco_provider", "CVE_CISCO_PROVIDER")
            /\ Has(TenableName) <=> On("enable_tenable_provider", "CVE_TENABLE_PROVIDER")
            /\ (/\ ~FlagSet("enable_nvd_enrichment")
                /\ ~FlagSet("enable_cisco_provider")
                /\ ~FlagSet("enable_tenable_provider")
                /\ \A n \in EnvNames : arg.env[n] \in EnvOff)
                  => ret.providers = <<LocalJsonName>>

\* the NVD enricher is on by its switch alone (spelled " TRUE "), the Cisco
\* provider by its flag although its switch says 0, and the Tenable provider
\* is off
C23_Witness ==
    /\ op = "__init__"
    /\ ~arg.providers.passed
    /\ ~FlagSet("enable_nvd_enrichment")
    /\ arg.env["CVE_NVD_ENRICH"] = <<" ", "T", "R", "U", "E", " ">>
    /\ FlagSet("enable_cisco_provider")
    /\ arg.env["CVE_CISCO_PROVIDER"] = <<"0">>
    /\ ret.providers = <<LocalJsonName, NvdName, CiscoName>>

-----------------------------------------------------------------------------
(* The severity of the records the engine holds                            *)

\* the severity is written in lowercase
IsLowercase(severity) == severity = Lower(severity)

\* some provider supplied, in the most recent load_all, an entry with the
\* ID and the severity of the record
SuppliedAsIs(cve) ==
    \E p \in 1..Len(loaded) : \E j \in 1..Len(loaded[p]) :
        /\ loaded[p][j].cve_id = cve.cve_id
        /\ loaded[p][j].severity = cve.severity

\* C24 as stated: every record the engine holds and every record match
\* returns carries its severity in lowercase.
C24_SeverityHeldInLowercase ==
    /\ \A i \in 1..Len(cves) : IsLowercase(cves[i].severity)
    /\ \A i \in 1..Len(matched) : IsLowercase(matched[i].severity)

\* C24, amended: the severity is compared without regard to case but never
\* rewritten: every record the engine holds carries the severity exactly as
\* a provider supplied it for that ID, match returns records of the engine
\* unchanged, and it ranks them by the lowercase form of their severity.
C24_SeverityKeptAsSuppliedComparedInLowercase ==
    /\ \A i \in 1..Len(cves) : SuppliedAsIs(cves[i])
    /\ \A i \in 1..Len(matched) :
          /\ InList(cves, matched[i])
          /\ SeverityRank(matched[i].severity) = ExpectedRank(Lower(matched[i].severity))
    /\ \A i, j \in 1..Len(matched) :
          i < j => ExpectedRank(Lower(matched[i].severity))
                      <= ExpectedRank(Lower(matched[j].severity))

\* match returned a record whose severity is written "Critical" and one
\* whose severity is written "CRITICAL", both ranked as critical
C24_Witness ==
    /\ op = "match"
    /\ Len(matched) >= 2
    /\ matched[1].severity = <<"C", "r", "i", "t", "i", "c", "a", "l">>
    /\ matched[2].severity = <<"C", "R", "I", "T", "I", "C", "A", "L">>
    /\ InList(cves, matched[1])
    /\ InList(cves, matched[2])

-----------------------------------------------------------------------------
(* load_all and match, statement by statement                              *)
(*                                                                         *)
(* load_all builds loaded_by_provider and by_id in local variables and     *)
(* assigns self.cves once, in its last statement.  `for cve in self.cves`  *)
(* evaluates self.cves once: the loop walks the list object it found, and  *)
(* load_all never changes a list it has assigned, it assigns a new one.    *)

\* the most load_all calls of a behaviour
MaxLoads == 1

\* what the load() of each provider of self.providers can do: the curated
\* dataset, the NVD enricher, an injected provider
StepOutcomes ==
    << {Raised,
        Returned(<<_ensure_source(File1)>>),
        Returned(<<_ensure_source(File1), _ensure_source(File2)>>)},
       {Returned(NvdLoad(NvdIds, responses)) :
           responses \in {r \in NvdResponses :
                             \A i, j \in 1..Len(r) : r[i].failed = r[j].failed}},
       {Raised, Returned(<<Ext1>>)} >>

StepQueries ==
    {[platform |-> Isr4451, version |-> V17_5_0],
     [platform |-> Asr9000, version |-> V17_5_0]}

\* the statement that follows provider.load() going to the merge at once
PcMergeAtOnce(i, n) == "base"

\* the statement that follows the i-th of n calls of provider.load(): the
\* loop over the providers ends before by_id is built
PcAfterLoad(i, n) == IF i = n THEN "base" ELSE "load"

\* self.cves assigned whenever by_id changes
CvesPublishedEarly(engine_cves, by_id) == by_id

\* self.cves while by_id is built: these statements do not assign it
CvesWhileMerging(engine_cves, by_id) == engine_cves

\* the sort of match applied to self.cves itself
SortedInPlace(engine_cves) == SortByKey(engine_cves)

\* self.cves after matched.sort(...): the sort orders the list match built
CvesAfterSort(engine_cves) == engine_cves

\* the loop of match reading self.cves anew in every round
ScannedLive(request, engine_cves) == engine_cves

\* the list the loop of match walks: the one self.cves named when the loop
\* began
Scanned(request, engine_cves) == request.list

BeginLoadAll ==
    /\ frame.pc = "idle"
    /\ Len(history) <= MaxLoads
    /\ frame' = [NoFrame EXCEPT !.pc = "load", !.by_id = NewDict(cves)]
    /\ outcomes' = <<>>
    /\ op' = "load_all called"
    /\ query' = NoQuery
    /\ matched' = <<>>
    /\ UNCHANGED <<cves, loaded, before, arg, ret, requests, history>>

\* provider.load() inside try/except, and the append that follows it
LoadProvider ==
    /\ frame.pc = "load"
    /\ \E out \in StepOutcomes[Len(frame.loaded_by_provider) + 1] :
          /\ outcomes' = Append(outcomes, out)
          /\ IF out.raised /\ ~Caught(out)
             THEN /\ frame' = NoFrame
                  /\ op' = "load_all raised"
             ELSE /\ frame' =
                        [frame EXCEPT
                            !.calls = Append(@, Len(frame.loaded_by_provider) + 1),
                            !.loaded_by_provider = Append(@, Contribution(out)),
                            !.pc = PcAfterLoad(Len(frame.loaded_by_provider) + 1,
                                               Len(StepOutcomes)),
                            !.j = 1]
                  /\ op' = "load"
    /\ query' = NoQuery
    /\ matched' = <<>>
    /\ UNCHANGED <<cves, loaded, before, arg, ret, requests, history>>

\* one round of `for entry in loaded_by_provider[0]`, or its end
BaseStep ==
    /\ frame.pc = "base"
    /\ frame' =
          IF frame.j <= Len(frame.loaded_by_provider[1])
          THEN [frame EXCEPT
                   !.by_id = DictSet(@, frame.loaded_by_provider[1][frame.j]),
                   !.j = @ + 1]
          ELSE [frame EXCEPT !.pc = "merge", !.k = 2, !.j = 1]
    /\ cves' = CvesWhileMerging(cves, frame'.by_id)
    /\ op' = "base"
    /\ query' = NoQuery
    /\ matched' = <<>>
    /\ UNCHANGED <<outcomes, loaded, before, arg, ret, requests, history>>

\* one round of the loops over loaded_by_provider[1:] and its patches, or
\* the end of one of them
MergeStep ==
    /\ frame.pc = "merge"
    /\ frame' =
          IF frame.k > Len(frame.loaded_by_provider)
          THEN [frame EXCEPT !.pc = "publish"]
          ELSE IF frame.j <= Len(frame.loaded_by_provider[frame.k])
          THEN [frame EXCEPT
                   !.by_id = MergePatch(@, frame.loaded_by_provider[frame.k][frame.j]),
                   !.j = @ + 1]
          ELSE [frame EXCEPT !.k = @ + 1, !.j = 1]
    /\ cves' = CvesWhileMerging(cves, frame'.by_id)
    /\ op' = "merge"
    /\ query' = NoQuery
    /\ matched' = <<>>
    /\ UNCHANGED <<outcomes, loaded, before, arg, ret, requests, history>>

\* self.cves = list(by_id.values())
Publish ==
    /\ frame.pc = "publish"
    /\ cves' = frame.by_id
    /\ loaded' = frame.loaded_by_provider
    /\ before' = cves
    /\ history' = Append(history, frame.by_id)
    /\ frame' = [frame EXCEPT !.pc = "idle"]
    /\ op' = "load_all"
    /\ query' = NoQuery
    /\ matched' = <<>>
    /\ UNCHANGED <<outcomes, arg, ret, requests>>

\* caller r calls match: `matched = []` and the start of the loop
BeginMatch(r) ==
    /\ requests[r].pc \in {"idle", "returned"}
    /\ \E q \in StepQueries :
          requests' =
              [requests EXCEPT ![r] =
                  [pc |-> "scan", platform |-> q.platform, version |-> q.version,
                   list |-> cves, i |-> 1, matched |-> <<>>,
                   epoch |-> Len(history)]]
    /\ op' = "match called"
    /\ query' = NoQuery
    /\ matched' = <<>>
    /\ UNCHANGED <<cves, outcomes, loaded, before, arg, ret, frame, history>>

\* one round of the loop of match
ScanStep(r) ==
    /\ requests[r].pc = "scan"
    /\ requests[r].i <= Len(Scanned(requests[r], cves))
    /\ requests' =
          [requests EXCEPT ![r] =
              [@ EXCEPT
                  !.matched =
                      IF Applies(Scanned(requests[r], cves)[requests[r].i],
                                 requests[r].platform, requests[r].version)
                      THEN Append(@, Scanned(requests[r], cves)[requests[r].i])
                      ELSE @,
                  !.i = @ + 1]]
    /\ op' = "scan"
    /\ query' = NoQuery
    /\ matched' = <<>>
    /\ UNCHANGED <<cves, outcomes, loaded, before, arg, ret, frame, history>>

\* the end of the loop, matched.sort(...) and the return
ReturnMatch(r) ==
    /\ requests[r].pc = "scan"
    /\ requests[r].i > Len(Scanned(requests[r], cves))
    /\ requests' =
          [requests EXCEPT ![r] =
              [@ EXCEPT !.pc = "returned", !.matched = SortByKey(@),
                        !.list = <<>>, !.i = 0]]
    /\ cves' = CvesAfterSort(cves)
    /\ op' = "match"
    /\ query' = [platform |-> requests[r].platform, version |-> requests[r].version]
    /\ matched' = SortByKey(requests[r].matched)
    /\ UNCHANGED <<outcomes, loaded, before, arg, ret, frame, history>>

\* one engine, its load_all and one caller of match running side by side
NextSteps ==
    \/ BeginLoadAll
    \/ LoadProvider
    \/ BaseStep
    \/ MergeStep
    \/ Publish
    \/ BeginMatch(1)
    \/ ScanStep(1)
    \/ ReturnMatch(1)

SpecSteps == Init /\ [][NextSteps]_vars

\* the entries of the enrichers for cve_id that supply field f, in the
\* order of their arrival
Suppliers(cve_id, f) ==
    {a \in 1..Len(Arrivals) :
        Arrivals[a].cve_id = cve_id /\ ~AbsentOrEmpty(f, Arrivals[a][f])}

\* C25: within one load_all the load() of each provider is called once, in
\* the configured order, and by_id is not touched before all of them were
\* called; the enrichers' outputs are then merged in the configured order:
\* a metadata field that is empty in the base record takes the value of the
\* first entry, in that order, that supplies one, and stays empty when none
\* does.
C25_LoadsThenMergesInConfiguredOrder ==
    /\ \A c \in 1..Len(frame.calls) : frame.calls[c] = c
    /\ Len(frame.calls) <= Len(StepOutcomes)
    /\ Len(frame.loaded_by_provider) = Len(frame.calls)
    /\ (frame.pc \in {"base", "merge", "publish"} \/ frame.by_id # <<>>)
          => frame.calls = [c \in 1..Len(StepOutcomes) |-> c]
    /\ op = "load_all" =>
          /\ frame.calls = [c \in 1..Len(StepOutcomes) |-> c]
          /\ \A i \in 1..Len(cves) : \A f \in MetadataFields :
                (/\ cves[i].cve_id \in IdsOf(loaded[1])
                 /\ AbsentOrEmpty(f, LastWith(loaded[1], cves[i].cve_id)[f]))
                    => IF Suppliers(cves[i].cve_id, f) = {}
                       THEN AbsentOrEmpty(f, cves[i][f])
                       ELSE \E a \in Suppliers(cves[i].cve_id, f) :
                               /\ \A b \in Suppliers(cves[i].cve_id, f) : a <= b
                               /\ cves[i][f] = Arrivals[a][f]

\* the three providers were called in turn; the curated record of CVE-1 has
\* no CVSS score, the NVD enricher supplies 9.8 and the injected provider,
\* merged after it, 7.5: the record holds 9.8
C25_Witness ==
    /\ op = "load_all"
    /\ frame.calls = <<1, 2, 3>>
    /\ loaded[1] # <<>>
    /\ loaded[1][1].cve_id = Cve1
    /\ loaded[1][1].cvss_score = NoScore
    /\ \E a \in 1..Len(loaded[2]) :
          loaded[2][a].cve_id = Cve1 /\ loaded[2][a].cvss_score = 98
    /\ loaded[3] = <<Ext1>>
    /\ cves[1].cve_id = Cve1
    /\ cves[1].cvss_score = 98

-----------------------------------------------------------------------------
(* Callers of one loaded engine running side by side                       *)

\* what the providers did in the load_all that loaded the engine; the first
\* dataset lists the record of CVE-10 before that of CVE-1
RequestOutcomes ==
    {<<Returned(<<_ensure_source(File2), _ensure_source(File1)>>),
       Returned(<<>>), Raised>>,
     <<Returned(<<_ensure_source(File1)>>),
       Returned(NvdLoad(NvdIds, [i \in 1..Len(NvdIds) |->
                                   [failed |-> FALSE, normalized |-> <<NvdDb[i]>>]])),
       Returned(<<Ext1>>)>>,
     <<Raised, Returned(<<>>), Raised>>}

\* the engine after __init__ and one load_all; no caller has begun
InitRequests ==
    /\ outcomes \in RequestOutcomes
    /\ loaded = [i \in 1..Len(outcomes) |-> Contribution(outcomes[i])]
    /\ cves = LoadedCves(<<>>, loaded)
    /\ before = <<>>
    /\ query = NoQuery
    /\ matched = <<>>
    /\ op = "load_all"
    /\ arg = <<>>
    /\ ret = <<>>
    /\ frame = NoFrame
    /\ requests = NoRequests
    /\ history = <<<<>>, cves>>

\* caller r passes the list match returned to summary
SummaryOf(r) ==
    /\ requests[r].pc = "returned"
    /\ requests' = [requests EXCEPT ![r] = [@ EXCEPT !.pc = "summarized"]]
    /\ ret' = summary(requests[r].matched)
    /\ op' = "summary"
    /\ query' = [platform |-> requests[r].platform, version |-> requests[r].version]
    /\ matched' = requests[r].matched
    /\ UNCHANGED <<cves, outcomes, loaded, before, arg, frame, history>>

\* caller r passes it to recommended_upgrade and is done
RecommendedUpgradeOf(r) ==
    /\ requests[r].pc = "summarized"
    /\ requests' = [requests EXCEPT ![r] = IdleRequest]
    /\ ret' = recommended_upgrade(requests[r].matched)
    /\ op' = "recommended_upgrade"
    /\ query' = [platform |-> requests[r].platform, version |-> requests[r].version]
    /\ matched' = requests[r].matched
    /\ UNCHANGED <<cves, outcomes, loaded, before, arg, frame, history>>

NextRequests ==
    \E r \in 1..MaxRequests :
        \/ BeginMatch(r)
        \/ ScanStep(r)
        \/ ReturnMatch(r)
        \/ SummaryOf(r)
        \/ RecommendedUpgradeOf(r)

SpecRequests == InitRequests /\ [][NextRequests]_vars

\* C26: match, summary and recommended_upgrade leave the list the engine
\* holds as load_all assigned it, with its records, their fields and their
\* order; however the steps of the callers interleave, each match returns
\* what match gives for its query on that list, and summary and
\* recommended_upgrade return what they give for that result.
C26_RequestsReadOnlyAndIndependent ==
    /\ cves = history[2]
    /\ cves = LoadedCves(<<>>, loaded)
    /\ \A r \in 1..MaxRequests :
          requests[r].pc \in {"returned", "summarized"} =>
              requests[r].matched =
                  match(cves, requests[r].platform, requests[r].version)
    /\ op = "match" => matched = match(cves, query.platform, query.version)
    /\ op = "summary" =>
          ret = summary(match(cves, query.platform, query.version))
    /\ op = "recommended_upgrade" =>
          ret = recommended_upgrade(match(cves, query.platform, query.version))

\* caller 1 got two records, in an order that is not the engine's, while
\* caller 2 was in the middle of the loop of a match for another platform
C26_Witness ==
    /\ op = "match"
    /\ requests[1].pc = "returned"
    /\ Len(requests[1].matched) = 2
    /\ requests[1].matched[1] = cves[2]
    /\ requests[1].matched[2] = cves[1]
    /\ requests[2].pc = "scan"
    /\ requests[2].i = 2
    /\ requests[2].platform # requests[1].platform

-----------------------------------------------------------------------------
(* Enrichers and the matching of curated records                           *)

\* the IDs of the records of list that the base provider supplied, in the
\* order of the list
RECURSIVE BaseIdsIn(_)
BaseIdsIn(list) ==
    IF list = <<>> THEN <<>>
    ELSE IF Head(list).cve_id \in IdsOf(loaded[1])
         THEN <<Head(list).cve_id>> \o BaseIdsIn(Tail(list))
    ELSE BaseIdsIn(Tail(list))

\* C27: whatever the enrichers returned in the load_all that loaded the
\* engine, the IDs of the base provider that match returns for a query, and
\* the order it returns them in, are those it returns when the engine is
\* loaded from the base provider's output alone.
C27_EnrichersLeaveCuratedMatchesAlone ==
    (op = "match" /\ loaded # <<>>) =>
        BaseIdsIn(matched) =
            BaseIdsIn(match(LoadedCves(<<>>, <<loaded[1]>>),
                            query.platform, query.version))

\* match returned the two curated records, the first of them enriched, and
\* after them a record that only an enricher supplied
C27_Witness ==
    /\ op = "match"
    /\ Len(matched) = 3
    /\ BaseIdsIn(matched) = <<Cve1, Cve10>>
    /\ matched[1].cvss_score = 98
    /\ LastWith(loaded[1], Cve1).cvss_score = NoScore
    /\ matched[3].cve_id = Cve2

-----------------------------------------------------------------------------
(* load_all when the first provider supplies nothing                       *)

\* a second entry for CVE-1, with a weakness class and another title
Ext1c ==
    [CVEEntry(Cve1, <<"T", "Z">>, SevHigh, <<Isr4451>>, V17_3_0, V17_7_0, <<>>)
        EXCEPT !.cvss_score = 10,
               !.cwe = <<"C", "W", "E", "-", "9">>]

\* what the providers do: the first raises or returns nothing; the second
\* and the third return lists that share IDs with each other and within
\* themselves, or raise
BaselessOutcomes ==
    {Raised, Returned(<<>>)}
        \X (NvdOutcomes \cup {Raised})
        \X {Raised, Returned(<<>>), Returned(<<Ext1>>), Returned(<<Ext2>>),
            Returned(<<Ext1, Ext1c>>), Returned(<<Ext2, Ext1c, Ext1>>)}

LoadAllBaseless == \E outs \in BaselessOutcomes : load_all(outs) /\ UNCHANGED before

NextBaseless == LoadAllBaseless \/ Match

SpecBaseless == Init /\ [][NextBaseless]_vars

\* the first entry of the arrivals that carries cve_id
FirstArrival(cve_id) ==
    CHOOSE a \in 1..Len(Arrivals) :
        /\ Arrivals[a].cve_id = cve_id
        /\ \A b \in 1..(a - 1) : Arrivals[b].cve_id # cve_id

\* C30: when the first provider raised or returned nothing, the record set
\* holds one record for each ID the later providers returned, in the order
\* in which the IDs first arrived; the record has the curated fields of the
\* first entry that arrived with its ID and, for each metadata field, the
\* value of the first arrived entry that has one: entries of one provider
\* that share an ID are merged like those of different providers, none
\* replaces another.  When every provider raised, the record set is empty.
C30_NoProviderPromotedToBase ==
    (op = "load_all" /\ loaded[1] = <<>>) =>
        /\ IdsOf(cves) = IdsOf(Arrivals)
        /\ \A i, j \in 1..Len(cves) :
              i < j => FirstArrival(cves[i].cve_id) < FirstArrival(cves[j].cve_id)
        /\ \A i \in 1..Len(cves) :
              /\ \A f \in CuratedFields :
                    cves[i][f] = Arrivals[FirstArrival(cves[i].cve_id)][f]
              /\ \A f \in MetadataFields :
                    IF Suppliers(cves[i].cve_id, f) = {}
                    THEN AbsentOrEmpty(f, cves[i][f])
                    ELSE \E a \in Suppliers(cves[i].cve_id, f) :
                            /\ \A b \in Suppliers(cves[i].cve_id, f) : a <= b
                            /\ cves[i][f] = Arrivals[a][f]
        /\ (\A p \in 1..Len(outcomes) : outcomes[p].raised) => cves = <<>>

\* the first provider raised and the second returned nothing; the third
\* returned two entries for CVE-1: the record has the title and the score of
\* the first and the weakness class of the second
C30_Witness ==
    /\ op = "load_all"
    /\ outcomes[1].raised
    /\ loaded[2] = <<>>
    /\ loaded[3] = <<Ext1, Ext1c>>
    /\ Len(cves) = 1
    /\ cves[1].title = Ext1.title
    /\ cves[1].cvss_score = 75
    /\ cves[1].cwe = Ext1c.cwe

-----------------------------------------------------------------------------
(* The providers' load() on their own                                      *)

\* what a data directory can hold: two record files, the first without a
\* source; a file that is not JSON; a JSON file that is not a record; and
\* two records in files whose names do not end in ".json"
FileOf(filename, parsed, valid, entry) ==
    [filename |-> filename, parsed |-> parsed, valid |-> valid, entry |-> entry]

DirEntries ==
    {FileOf(<<"a", ".", "j", "s", "o", "n">>, TRUE, TRUE, File1),
     FileOf(<<"b", ".", "j", "s", "o", "n">>, TRUE, TRUE, File1b),
     FileOf(<<"c", ".", "j", "s", "o", "n">>, FALSE, FALSE, File2),
     FileOf(<<"d", ".", "j", "s", "o", "n">>, TRUE, FALSE, File2),
     FileOf(<<"e", ".", "t", "x", "t">>, TRUE, TRUE, File2),
     FileOf(<<"f", ".", "J", "S", "O", "N">>, TRUE, TRUE, File2)}

MissingDir == [isdir |-> FALSE, listing |-> <<>>]

DataDirs ==
    {MissingDir} \cup
    {[isdir |-> TRUE, listing |-> listing] : listing \in ListsOf(DirEntries, MaxFiles)}

\* the cve_ids argument of NvdEnricherProvider
CveIdArgs ==
    {[passed |-> FALSE, ids |-> <<>>]} \cup
    {[passed |-> TRUE, ids |-> ids] :
        ids \in {<<>>, <<Cve1>>, <<Cve1, Cve2>>, <<Cve2, Cve1>>, <<Cve1, Cve1>>}}

\* what the lookup and parse of one ID can give: an exception, no record, or
\* one record, with or without a severity
LookupResponses(cve_id) ==
    {[failed |-> TRUE, normalized |-> <<>>],
     [failed |-> FALSE, normalized |-> <<>>],
     [failed |-> FALSE, normalized |-> <<NvdRecord(cve_id, SevCritical, 98)>>],
     [failed |-> FALSE, normalized |-> <<NvdRecord(cve_id, <<>>, NoScore)>>]}

InitProviders ==
    /\ cves = <<>>
    /\ outcomes = <<>>
    /\ loaded = <<>>
    /\ before = <<>>
    /\ query = NoQuery
    /\ matched = <<>>
    /\ op = "init"
    /\ arg = MissingDir
    /\ ret = <<>>
    /\ frame = NoNvdCall
    /\ requests = NoRequests
    /\ history = <<<<>>>>

\* LocalJsonProvider(data_dir).load()
LocalJsonLoad ==
    /\ \E dir \in DataDirs :
          /\ arg' = dir
          /\ ret' = LocalLoad(dir)
    /\ op' = "LocalJsonProvider.load"
    /\ UNCHANGED <<cves, outcomes, loaded, before, query, matched,
                   frame, requests, history>>

\* NvdEnricherProvider(cve_ids).load() up to the loop
NvdBegin ==
    /\ frame.pc \in {"idle", "returned"}
    /\ \E cve_ids \in CveIdArgs :
          frame' = [NoNvdCall EXCEPT
                        !.cve_ids = NvdCveIds(cve_ids),
                        !.i = 1,
                        !.pc = IF NvdCveIds(cve_ids) = <<>> THEN "returned"
                               ELSE "loop"]
    /\ op' = "NvdEnricherProvider.load"
    /\ UNCHANGED <<cves, outcomes, loaded, before, query, matched, arg, ret,
                   requests, history>>

\* one round of `for cve_id in self.cve_ids`, and `return out` after the
\* last
NvdLookup ==
    /\ frame.pc = "loop"
    /\ \E response \in LookupResponses(frame.cve_ids[frame.i]) :
          frame' = [frame EXCEPT
                        !.lookups = Append(@, frame.cve_ids[frame.i]),
                        !.responses = Append(@, response),
                        !.out = IF response.failed THEN @
                                ELSE @ \o NvdPatches(response.normalized,
                                                     frame.cve_ids[frame.i]),
                        !.i = @ + 1,
                        !.pc = IF frame.i = Len(frame.cve_ids) THEN "returned"
                               ELSE "loop"]
    /\ op' = "NvdEnricherProvider.load"
    /\ UNCHANGED <<cves, outcomes, loaded, before, query, matched, arg, ret,
                   requests, history>>

NextProviders == LocalJsonLoad \/ NvdBegin \/ NvdLookup

SpecProviders == InitProviders /\ [][NextProviders]_vars

\* a file whose name is some stem followed by ".json" and that holds a
\* record
WellFormedRecordFile(file) ==
    /\ \E n \in 0..Len(file.filename) :
          file.filename = SubSeq(file.filename, 1, n) \o JsonSuffix
    /\ file.parsed
    /\ file.valid

KeptFiles(listing) == SelectSeq(listing, WellFormedRecordFile)

\* C28: the local provider returns nothing for a missing directory and
\* otherwise one record for each well-formed record file whose name ends in
\* ".json", in listing order, whatever other files the directory holds; the
\* record is the file's, with source "local-json" when the file names none.
\* The NVD provider looks up each requested ID once, in order, and none
\* when it has no IDs; what it returns is, for each ID in order, the patches
\* of its response when lookup and parse did not raise and nothing when
\* they did.
C28_OneBadItemNeverFailsTheLoad ==
    /\ ~arg.isdir => ret = <<>>
    /\ arg.isdir =>
          /\ Len(ret) = Len(KeptFiles(arg.listing))
          /\ \A i \in 1..Len(ret) :
                ret[i] =
                    [KeptFiles(arg.listing)[i].entry EXCEPT
                        !.source = IF @ \in {None, <<>>} THEN LocalJsonName ELSE @]
    /\ frame.lookups = SubSeq(frame.cve_ids, 1, Len(frame.lookups))
    /\ frame.cve_ids = <<>> => frame.lookups = <<>> /\ frame.out = <<>>
    /\ frame.pc = "returned" =>
          /\ frame.lookups = frame.cve_ids
          /\ frame.out =
                Concat([i \in 1..Len(frame.cve_ids) |->
                          IF frame.responses[i].failed THEN <<>>
                          ELSE NvdPatches(frame.responses[i].normalized,
                                          frame.cve_ids[i])])

\* the directory held a file that is not JSON before a record file without
\* a source, and load returned that record as local-json; the first of the
\* two lookups of the NVD provider raised and load returned the patch of the
\* second
C28_Witness ==
    /\ arg.isdir
    /\ Len(arg.listing) = 2
    /\ ~arg.listing[1].parsed
    /\ arg.listing[2].entry.source = None
    /\ Len(ret) = 1
    /\ ret[1].cve_id = Cve1
    /\ ret[1].source = LocalJsonName
    /\ frame.pc = "returned"
    /\ frame.cve_ids = <<Cve1, Cve2>>
    /\ frame.responses[1].failed
    /\ Len(frame.lookups) = 2
    /\ Len(frame.out) = 1
    /\ frame.out[1].cve_id = Cve2

====
